---- MODULE Spec2Model ----
(***************************************************************************)
(* The log-derived usage analytics engine of proxypal: the tail worker     *)
(* (helpers/log_watcher.rs), the aggregate and history files               *)
(* (helpers/history.rs), the authoritative sync and the history commands   *)
(* (commands/usage.rs) and the watcher's lifecycle (commands/proxy.rs).    *)
(*                                                                         *)
(* Files are modelled as the operating system offers them: a path names an *)
(* inode, std::fs::write is create-and-truncate followed by the write,     *)
(* std::fs::rename moves the inode of one path to another path.  Every     *)
(* handler is cut at its file operations and at nothing else, so the       *)
(* interleavings are those of the threads that run the handlers.           *)
(***************************************************************************)
EXTENDS Integers, Sequences, FiniteSets, TLC

(***************************************************************************)
(* Bounds of the model.                                                    *)
(***************************************************************************)
MaxLines == 2       \* lines the proxy writes to its log
MaxRotations == 1   \* rotations of the log
MaxFaults == 1      \* injected I/O failures
MaxWorkers == 2     \* tail worker threads alive at once
MaxTicks == 1       \* advances of the wall clock
MaxSyncs == 2       \* authoritative syncs

(***************************************************************************)
(* Program constants.                                                      *)
(***************************************************************************)
MAX_HOURLY_POINTS == 168
MAX_HISTORY_SIZE == 500
MaxSyncDays == 14
MaxAttempts == 30

Workers == 1..MaxWorkers

Min(a, b) == IF a < b THEN a ELSE b

Range(f) == {f[x] : x \in DOMAIN f}

(***************************************************************************)
(* Time series: Vec<TimeSeriesPoint>, a sequence of [label, value].        *)
(* A day label YYYY-MM-DD is the day's number; an hour label YYYY-MM-DDTHH *)
(* is day * 24 + hour, so that the order of the integers is the order of   *)
(* the strings.                                                            *)
(***************************************************************************)
Point(l, v) == [label |-> l, value |-> v]

HourLabel(day, hour) == day * 24 + hour

\* series.iter().position(|p| p.label == label), 0 when there is none
Find(series, label) ==
    IF \E i \in 1..Len(series) : series[i].label = label
    THEN CHOOSE i \in 1..Len(series) :
            /\ series[i].label = label
            /\ \A j \in 1..(i - 1) : series[j].label # label
    ELSE 0

Labels(series) == {series[i].label : i \in 1..Len(series)}

ValueAt(series, label) ==
    IF Find(series, label) = 0 THEN 0 ELSE series[Find(series, label)].value

UpdateTimeseriesOverwrite(series, label, increment) ==
    LET i == Find(series, label) IN
    IF i # 0
    THEN [series EXCEPT ![i].value = increment]
    ELSE Append(series, Point(label, increment))

UpdateTimeseries(series, label, increment) ==
    LET i == Find(series, label) IN
    IF i # 0
    THEN [series EXCEPT ![i].value = series[i].value + increment]
    ELSE Append(series, Point(label, increment))

\* the tail of a vector: v.split_off(v.len() - n) when v.len() > n
KeepLast(series, n) ==
    IF Len(series) > n
    THEN SubSeq(series, Len(series) - n + 1, Len(series))
    ELSE series

RECURSIVE InsertSorted(_, _)
InsertSorted(sorted, p) ==
    IF sorted = <<>> THEN <<p>>
    ELSE IF sorted[Len(sorted)].label <= p.label THEN Append(sorted, p)
    ELSE Append(InsertSorted(SubSeq(sorted, 1, Len(sorted) - 1), p),
                sorted[Len(sorted)])

\* series.sort_by(|a, b| a.label.cmp(&b.label)): a stable sort
RECURSIVE SortByLabel(_)
SortByLabel(series) ==
    IF series = <<>> THEN <<>>
    ELSE InsertSorted(SortByLabel(SubSeq(series, 1, Len(series) - 1)),
                      series[Len(series)])

(***************************************************************************)
(* Log lines.  A line is what parse_gin_log_line reads of it: its format,  *)
(* the request id, timestamp, status and path it carries.  n numbers the   *)
(* physical lines in the order the proxy wrote them; the program never     *)
(* reads it.  ts = 0 is a line without a date and time.  What one write of *)
(* the proxy puts into the file is a whole line, or the head of a line, cut *)
(* inside its quoted path, or the tail that ends the line (part).  fmt is  *)
(* the regex the line matches: NEW_FORMAT_REGEX ("new"), GIN_REGEX ("gin") *)
(* or neither ("other").  marker says that the line contains "for model "; *)
(* hinted is the model MODEL_REGEX captures from it and inline the model=  *)
(* field of a line in the GIN format, "none" when there is none.           *)
(***************************************************************************)
TrackedPath == "/v1/messages"
GeminiPath == "/v1beta/models/gemini-pro:generateContent"
ManagementPath == "/v0/management/usage"

NoRequestId == "--------"

ModelsPath == "/v1/models"
InternalMessagesPath == "/api/internal/v1/messages"
TelemetryPath == "/api/telemetry/v1beta"
HealthPath == "/healthz"
CompletionsPath == "/v1/chat/completions"

\* the denylist of lines 98-105 and the allowlist of lines 111-116
IsInternalRoute(path) ==
    path \in {ManagementPath, ModelsPath, InternalMessagesPath, TelemetryPath}

IsTrackable(path) ==
    path \in {TrackedPath, GeminiPath, CompletionsPath, InternalMessagesPath,
              TelemetryPath}

\* crate::utils, outside the files of this model: the model a path names
ExtractModelFromPath(path) ==
    IF path = GeminiPath THEN "gemini-pro" ELSE "none"

DetectProviderFromModel(model) ==
    CASE model = "gemini-pro" -> "google"
      [] model = "claude-x" -> "anthropic"
      [] model = "gpt-5" -> "openai"
      [] OTHER -> "unknown"

DetectProviderFromPath(path) ==
    CASE path = TrackedPath -> "anthropic"
      [] path = GeminiPath -> "google"
      [] OTHER -> "none"

None == -1

UnwrapOr0(x) == IF x = None THEN 0 ELSE x

NoEvent == [kind |-> "none"]

\* RequestLog; src is the number of the line it was parsed from
RequestLog(line, timestamp, count, model, provider) ==
    [kind |-> "event",
     id |-> <<timestamp, count>>,
     timestamp |-> timestamp,
     provider |-> provider,
     model |-> model,
     path |-> line.path,
     status |-> line.status,
     tokens_in |-> None,
     tokens_out |-> None,
     tokens_cached |-> None,
     src |-> line.n]

\* a resolution that asks the path first
ProviderPathFirst(model, path) ==
    IF DetectProviderFromPath(path) # "none"
    THEN DetectProviderFromPath(path)
    ELSE DetectProviderFromModel(model)

\* lines 165-170 and 229-234
ProviderOf(model, path) ==
    IF DetectProviderFromModel(model) # "unknown"
    THEN DetectProviderFromModel(model)
    ELSE IF DetectProviderFromPath(path) # "none"
         THEN DetectProviderFromPath(path)
         ELSE "unknown"

(***************************************************************************)
(* The model cache of a worker thread (lines 263-265).  models holds the   *)
(* entries of the request ids the log lines of this model carry; others    *)
(* counts the entries of other request ids.                                *)
(***************************************************************************)
MAX_CACHE_SIZE == 1000
CacheEvicted == 500

EmptyCache == [models |-> [x \in {} |-> "none"], others |-> 0]

CacheSize(cache) == Cardinality(DOMAIN cache.models) + cache.others

\* lines 78-84: the first CacheEvicted keys of the HashMap are removed;
\* their order is that of the hashes, so any entries may be among them
Evictions(cache) ==
    { [models |-> [k \in (DOMAIN cache.models) \ gone |-> cache.models[k]],
       others |-> cache.others - (CacheEvicted - Cardinality(gone))] :
      gone \in {some \in SUBSET (DOMAIN cache.models) :
                  /\ Cardinality(some) <= CacheEvicted
                  /\ CacheEvicted - Cardinality(some) <= cache.others} }

\* MODEL_REGEX of lines 66-70 matches the line
HintMatches(line) ==
    line.part = "whole" /\ line.marker /\ line.hinted # "none"

\* an insertion that evicts nothing
CachesAfterUnbounded(line, cache) ==
    IF ~HintMatches(line) THEN {cache}
    ELSE {[cache EXCEPT !.models =
              [k \in (DOMAIN @) \cup {line.rid} |->
                  IF k = line.rid THEN line.hinted ELSE @[k]]]}

\* lines 64-86: the caches a line may leave
CachesAfter(line, cache) ==
    IF ~HintMatches(line) THEN {cache}
    ELSE LET inserted ==
                 [cache EXCEPT !.models =
                     [k \in (DOMAIN @) \cup {line.rid} |->
                         IF k = line.rid THEN line.hinted ELSE @[k]]]
         IN  IF CacheSize(inserted) > MAX_CACHE_SIZE
             THEN Evictions(inserted)
             ELSE {inserted}

\* the model of a line in the new format, lines 153-162
ModelOfNewFormat(line, cache) ==
    IF line.rid # NoRequestId /\ line.rid \in DOMAIN cache.models
    THEN cache.models[line.rid]
    ELSE IF ExtractModelFromPath(line.path) # "none"
         THEN ExtractModelFromPath(line.path)
         ELSE "unknown"

\* the model of a line in the GIN format, lines 221-225
ModelOfGinFormat(line) ==
    IF line.inline # "none" THEN line.inline
    ELSE IF ExtractModelFromPath(line.path) # "none"
         THEN ExtractModelFromPath(line.path)
         ELSE "unknown"

\* a parser without the test of line 64
ParseIgnoringMarker(line, count, cache, now) ==
    IF line.part # "whole" THEN NoEvent
    ELSE IF line.fmt \notin {"new", "gin"} THEN NoEvent
    ELSE IF IsInternalRoute(line.path) THEN NoEvent
    ELSE IF ~IsTrackable(line.path) THEN NoEvent
    ELSE LET timestamp == IF line.ts # 0 THEN line.ts ELSE now
             model == IF line.fmt = "new" THEN ModelOfNewFormat(line, cache)
                      ELSE ModelOfGinFormat(line)
         IN  RequestLog(line, timestamp, count, model,
                        ProviderOf(model, line.path))

\* a parser without the denylist of lines 98-108
ParseWithoutDenylist(line, count, cache, now) ==
    IF line.part # "whole" THEN NoEvent
    ELSE IF line.marker THEN NoEvent
    ELSE IF line.fmt \notin {"new", "gin"} THEN NoEvent
    ELSE IF ~IsTrackable(line.path) THEN NoEvent
    ELSE LET timestamp == IF line.ts # 0 THEN line.ts ELSE now
             model == IF line.fmt = "new" THEN ModelOfNewFormat(line, cache)
                      ELSE ModelOfGinFormat(line)
         IN  RequestLog(line, timestamp, count, model,
                        ProviderOf(model, line.path))

\* parse_gin_log_line: the event of a line, or NoEvent.  now is
\* SystemTime::now() in milliseconds.  The head of a line has no closing
\* quote and its tail no opening one: neither regex of lines 124-131
\* matches a part of a line.
ParseGinLogLine(line, count, cache, now) ==
    IF line.part # "whole" THEN NoEvent
    ELSE IF line.marker THEN NoEvent
    ELSE IF line.fmt \notin {"new", "gin"} THEN NoEvent
    ELSE IF IsInternalRoute(line.path) THEN NoEvent
    ELSE IF ~IsTrackable(line.path) THEN NoEvent
    ELSE LET timestamp == IF line.ts # 0 THEN line.ts ELSE now
             model == IF line.fmt = "new" THEN ModelOfNewFormat(line, cache)
                      ELSE ModelOfGinFormat(line)
         IN  RequestLog(line, timestamp, count, model,
                        ProviderOf(model, line.path))

(***************************************************************************)
(* The Aggregate (aggregate.json) and the RequestHistory (history.json).   *)
(***************************************************************************)
EmptyMap == [x \in {} |-> 0]

MapPut(m, k, v) == [x \in (DOMAIN m) \cup {k} |-> IF x = k THEN v ELSE m[x]]

DefaultStats ==
    [requests |-> 0, success_count |-> 0, tokens |-> 0,
     input_tokens |-> 0, output_tokens |-> 0, cached_tokens |-> 0]

DefaultAggregate ==
    [total_requests |-> 0,
     total_success_count |-> 0,
     total_failure_count |-> 0,
     total_tokens_in |-> 0,
     total_tokens_out |-> 0,
     total_tokens_cached |-> 0,
     total_cost_usd |-> 0,
     requests_by_day |-> <<>>,
     tokens_by_day |-> <<>>,
     requests_by_hour |-> <<>>,
     tokens_by_hour |-> <<>>,
     model_stats |-> EmptyMap,
     provider_stats |-> EmptyMap]

DefaultHistory ==
    [requests |-> <<>>,
     total_tokens_in |-> 0,
     total_tokens_out |-> 0,
     total_tokens_cached |-> 0,
     total_cost_usd |-> 0,
     tokens_by_day |-> <<>>,
     tokens_by_hour |-> <<>>]

StatsOf(m, k) == IF k \in DOMAIN m THEN m[k] ELSE DefaultStats

UpdateModelStats(agg, req) ==
    LET model == IF req.model = "" \/ req.model = "unknown"
                 THEN "unknown" ELSE req.model
        e == StatsOf(agg.model_stats, model)
        tin == UnwrapOr0(req.tokens_in)
        tout == UnwrapOr0(req.tokens_out)
    IN  [agg EXCEPT !.model_stats = MapPut(@, model,
            [requests |-> e.requests + 1,
             success_count |-> e.success_count
                               + (IF req.status < 400 THEN 1 ELSE 0),
             tokens |-> e.tokens + tin + tout,
             input_tokens |-> e.input_tokens + tin,
             output_tokens |-> e.output_tokens + tout,
             cached_tokens |-> e.cached_tokens
                               + UnwrapOr0(req.tokens_cached)])]

UpdateProviderStats(agg, req) ==
    LET provider == IF req.provider = "" \/ req.provider = "unknown"
                    THEN "unknown" ELSE req.provider
        e == StatsOf(agg.provider_stats, provider)
    IN  [agg EXCEPT !.provider_stats = MapPut(@, provider,
            [e EXCEPT !.requests = @ + 1,
                      !.success_count = @ + (IF req.status < 400 THEN 1 ELSE 0),
                      !.tokens = @ + UnwrapOr0(req.tokens_in)
                                   + UnwrapOr0(req.tokens_out)])]

\* a trim that keeps the first MAX_HISTORY_SIZE entries instead
TrimRequestsFromBack(requests) ==
    SubSeq(requests, 1, Min(Len(requests), MAX_HISTORY_SIZE))

\* the trim of a request list to its last MAX_HISTORY_SIZE entries
TrimRequests(requests) ==
    IF Len(requests) > MAX_HISTORY_SIZE
    THEN SubSeq(requests, Len(requests) - MAX_HISTORY_SIZE + 1, Len(requests))
    ELSE requests

\* lines 339-341 of the tail worker: the same timestamp and path
IsDuplicate(history, req) ==
    \E i \in 1..Len(history.requests) :
        /\ history.requests[i].timestamp = req.timestamp
        /\ history.requests[i].path = req.path

\* lines 345-396 of the tail worker: the aggregate with the event folded in
FoldEvent(agg, req, day, hour) ==
    LET tokens == UnwrapOr0(req.tokens_in) + UnwrapOr0(req.tokens_out)
        a1 == [agg EXCEPT
                 !.total_requests = @ + 1,
                 !.total_success_count = @ + (IF req.status < 400 THEN 1 ELSE 0),
                 !.total_failure_count = @ + (IF req.status < 400 THEN 0 ELSE 1),
                 !.total_tokens_in = @ + UnwrapOr0(req.tokens_in),
                 !.total_tokens_out = @ + UnwrapOr0(req.tokens_out),
                 !.total_tokens_cached = @ + UnwrapOr0(req.tokens_cached),
                 !.requests_by_day = UpdateTimeseries(@, day, 1),
                 !.tokens_by_day = UpdateTimeseries(@, day, tokens),
                 !.requests_by_hour =
                     KeepLast(UpdateTimeseries(@, HourLabel(day, hour), 1),
                              MAX_HOURLY_POINTS),
                 !.tokens_by_hour =
                     KeepLast(UpdateTimeseries(@, HourLabel(day, hour), tokens),
                              MAX_HOURLY_POINTS)]
    IN  UpdateProviderStats(UpdateModelStats(a1, req), req)

\* lines 392-396 of the tail worker: the history with the event appended
PushRequest(history, req) ==
    [history EXCEPT !.requests = TrimRequests(Append(@, req))]

MsPerHour == 60 * 60 * 1000
MsPerDay == 24 * MsPerHour

\* the day of a timestamp in milliseconds
DayOfTimestamp(ts) == ts \div MsPerDay

\* migrate_to_split_storage, lines 29-62: the aggregate built from a history
RECURSIVE MigrateRequests(_, _)
MigrateRequests(agg, requests) ==
    IF requests = <<>> THEN agg
    ELSE LET req == requests[1]
             tokens == UnwrapOr0(req.tokens_in) + UnwrapOr0(req.tokens_out)
             a1 == [agg EXCEPT
                      !.requests_by_day =
                          UpdateTimeseries(@, DayOfTimestamp(req.timestamp), 1),
                      !.tokens_by_day =
                          UpdateTimeseries(@, DayOfTimestamp(req.timestamp),
                                           tokens)]
         IN  MigrateRequests(UpdateProviderStats(UpdateModelStats(a1, req), req),
                             Tail(requests))

Successes(requests) ==
    Cardinality({i \in 1..Len(requests) : requests[i].status < 400})

MigratedAggregate(history) ==
    LET a0 == [DefaultAggregate EXCEPT
                 !.total_requests = Len(history.requests),
                 !.total_success_count = Successes(history.requests),
                 !.total_failure_count =
                     Len(history.requests) - Successes(history.requests),
                 !.total_tokens_in = history.total_tokens_in,
                 !.total_tokens_out = history.total_tokens_out,
                 !.total_cost_usd = history.total_cost_usd]
        a1 == MigrateRequests(a0, history.requests)
        a2 == IF history.tokens_by_day # <<>> /\ a1.tokens_by_day = <<>>
              THEN [a1 EXCEPT !.tokens_by_day = history.tokens_by_day]
              ELSE a1
    IN  [a2 EXCEPT !.requests_by_day = SortByLabel(@),
                   !.tokens_by_day = SortByLabel(@)]

(***************************************************************************)
(* State.                                                                  *)
(***************************************************************************)
VARIABLES
    inodes,     \* the files of the aggregate store: inode -> content
    aggPath,    \* the inode aggregate.json names, 0 when the path is free
    tmpPath,    \* the inode aggregate.json.tmp names, 0 when the path is free
    histFile,   \* history.json, written in place
    logs,       \* the log files: inode -> the lines written to it
    logPath,    \* the inode logs/main.log names, 0 when the path is free
    proc,       \* the host process: "up" or "down"
    running,    \* AppState.log_watcher_running
    proxyUp,    \* AppState.proxy_status.running
    counter,    \* AppState.request_counter
    starter,    \* start_proxy: "idle", or "halted" between its two stores
    wk,         \* the tail workers (threads of start_log_watcher)
    clock,      \* the wall clock: day and hour
    emitted,    \* the request-log events emitted to the frontend
    sy,         \* the thread of an authoritative sync
    ad,         \* the thread of add_request_to_history
    used,       \* what the environment has spent of each bound
    delivered,  \* line number -> how many times read_line handed it to the parser
    replayed,   \* the lines a worker read though they were in the file when it attached
    fragments,  \* the lines of which read_line handed a part to the parser
    committed,  \* the Aggregate of the last save_aggregate that returned Ok
    cfg,        \* config.json and AppState.config
    cl,         \* the thread of clear_request_history
    dur,        \* a call of parse_duration: its token and what it returns
    yaml,       \* proxy-config.yaml and the call of set_routing_strategy
    rq          \* a call of fetch_with_retry

storeVars == <<inodes, aggPath, tmpPath, histFile>>
logVars == <<logs, logPath>>
lifeVars == <<proc, running, proxyUp, counter, starter>>
cmdVars == <<sy, ad>>
ghostVars == <<delivered, replayed, fragments, committed>>
toolVars == <<dur, yaml, rq>>
appVars == <<cfg, cl, dur, yaml, rq>>
vars == <<inodes, aggPath, tmpPath, histFile, logs, logPath, proc, running,
          proxyUp, counter, starter, wk, clock, emitted, sy, ad, used,
          delivered, replayed, fragments, committed, cfg, cl, dur, yaml, rq>>

(***************************************************************************)
(* Files.  A file's content is complete ("full"), truncated ("empty") or   *)
(* a mix of two writes ("torn").                                           *)
(***************************************************************************)
Full(v) == [st |-> "full", val |-> v]

EmptyFile(default) == [st |-> "empty", val |-> default]

TornFile(default) == [st |-> "torn", val |-> default]

\* the smallest inode number not in use
FreshInode(table) ==
    CHOOSE i \in 1..(Cardinality(DOMAIN table) + 1) : i \notin DOMAIN table

\* the length of an aggregate's JSON text grows with its points and entries
TextSize(agg) ==
    Len(agg.requests_by_day) + Len(agg.tokens_by_day)
    + Len(agg.requests_by_hour) + Len(agg.tokens_by_hour)
    + Cardinality(DOMAIN agg.model_stats)
    + Cardinality(DOMAIN agg.provider_stats)

\* write_all from offset 0 into a file that may hold another write's text:
\* a text at least as long replaces it, a shorter one leaves its end behind
Overwritten(content, agg) ==
    IF content.st = "empty" THEN Full(agg)
    ELSE IF content.st = "full" /\ TextSize(agg) >= TextSize(content.val)
         THEN Full(agg)
         ELSE TornFile(DefaultAggregate)

\* the inodes a path or an open descriptor of a worker still names
Referenced(table, paths, fds) == {i \in DOMAIN table : i \in paths \cup fds}

Restrict(table, keep) == [i \in keep |-> table[i]]

\* load_aggregate: the parsed file, or the default when the file is missing
\* or does not parse
LoadAggregate ==
    IF aggPath # 0 /\ inodes[aggPath].st = "full"
    THEN inodes[aggPath].val
    ELSE DefaultAggregate

\* load_request_history.  The migration of lines 14-20 recomputes counters
\* this model does not carry.
LoadRequestHistory ==
    IF histFile.st = "full" THEN histFile.val ELSE DefaultHistory

(***************************************************************************)
(* config.json and the AppConfig read from it.  Of a configuration the     *)
(* model keeps the port and the two fields migrate_config moves a provider *)
(* between.  The file is missing ("absent"), cannot be read                *)
(* ("unreadable"), is not the JSON of an AppConfig ("invalid") or holds    *)
(* one ("full").                                                           *)
(***************************************************************************)
NoProvider == "none"

DefaultConfig ==
    [port |-> 8317, amp_openai_provider |-> NoProvider,
     amp_openai_providers |-> <<>>]

\* no configuration: the host process is not running
NoConfig ==
    [port |-> 0, amp_openai_provider |-> NoProvider,
     amp_openai_providers |-> <<>>]

MissingConfig == [st |-> "absent", val |-> DefaultConfig]

\* migrate_config: the deprecated provider is taken out and, when the list
\* of providers is empty, pushed to it
NeedsMigration(config) ==
    /\ config.amp_openai_provider # NoProvider
    /\ config.amp_openai_providers = <<>>

MigrateConfig(config) ==
    IF NeedsMigration(config)
    THEN [config EXCEPT !.amp_openai_provider = NoProvider,
                        !.amp_openai_providers = <<config.amp_openai_provider>>]
    ELSE [config EXCEPT !.amp_openai_provider = NoProvider]

LoadConfigStrict(file) ==
    IF file.st = "full" THEN MigrateConfig(file.val) ELSE NoConfig

\* load_config_from_path: the defaults for a file that is missing, cannot
\* be read or does not parse; else the parsed configuration, migrated
LoadConfigFromPath(file) ==
    IF file.st = "absent" THEN DefaultConfig
    ELSE IF file.st = "unreadable" THEN DefaultConfig
    ELSE IF file.st = "invalid" THEN DefaultConfig
    ELSE MigrateConfig(file.val)

\* lines 297-299: a migrated configuration is saved back to the file
ConfigFileAfterLoad(file) ==
    IF file.st = "full" /\ NeedsMigration(file.val)
    THEN Full(MigrateConfig(file.val))
    ELSE file

\* the conditions config.json is found in at a start
ConfigFiles ==
    { MissingConfig,
      [st |-> "unreadable", val |-> DefaultConfig],
      [st |-> "invalid", val |-> DefaultConfig],
      Full([DefaultConfig EXCEPT !.port = 9000]),
      Full([DefaultConfig EXCEPT !.amp_openai_provider = "Legacy"]) }

(***************************************************************************)
(* The log file and the proxy that writes it (the environment).            *)
(***************************************************************************)
\* the day the model starts on: the first day on which a payload with a
\* point for every day since day 1 is longer than the sync's window of days
Today == MaxSyncDays + 1

\* the timestamp a line carries: a whole second of that day
LineTs(k) == Today * MsPerDay + k * 1000

\* a request line without the marker and without a model= field
RequestLine(fmt, rid, ts, status, path) ==
    [fmt |-> fmt, rid |-> rid, ts |-> ts, status |-> status, path |-> path,
     marker |-> FALSE, hinted |-> "none", inline |-> "none"]

LinePool ==
    { RequestLine("new", NoRequestId, LineTs(1), 200, TrackedPath),
      RequestLine("new", NoRequestId, LineTs(2), 500, TrackedPath),
      RequestLine("new", NoRequestId, LineTs(1), 200, ManagementPath) }

HintedId == "f803bb77"
OtherId == "0a1b2c3d"

\* a line of other text that holds the marker; hinted is "none" when
\* MODEL_REGEX does not match it
MarkerLine(rid, hinted) ==
    [fmt |-> "other", rid |-> rid, ts |-> 0, status |-> 0, path |-> "none",
     marker |-> TRUE, hinted |-> hinted, inline |-> "none"]

\* the lines of every shape parse_gin_log_line tells apart
ParsePool ==
    { MarkerLine(HintedId, "claude-x"),
      MarkerLine(OtherId, "gemini-pro"),
      MarkerLine(NoRequestId, "none"),
      [RequestLine("new", HintedId, LineTs(1), 200, TrackedPath)
         EXCEPT !.marker = TRUE, !.hinted = "gpt-5"],
      RequestLine("new", HintedId, LineTs(1), 200, TrackedPath),
      RequestLine("new", HintedId, LineTs(2), 200, GeminiPath),
      RequestLine("new", NoRequestId, LineTs(2), 200, GeminiPath),
      RequestLine("new", NoRequestId, LineTs(1), 500, TrackedPath),
      [RequestLine("gin", NoRequestId, LineTs(1), 200, GeminiPath)
         EXCEPT !.inline = "gpt-5"],
      RequestLine("gin", NoRequestId, LineTs(2), 200, GeminiPath),
      RequestLine("gin", NoRequestId, LineTs(2), 200, TrackedPath),
      RequestLine("new", HintedId, LineTs(1), 200, InternalMessagesPath),
      RequestLine("gin", NoRequestId, LineTs(1), 200, TelemetryPath),
      RequestLine("new", HintedId, LineTs(1), 200, ModelsPath),
      RequestLine("new", HintedId, LineTs(1), 200, HealthPath),
      RequestLine("other", NoRequestId, LineTs(1), 200, TrackedPath),
      RequestLine("new", NoRequestId, LineTs(1), 200, CompletionsPath),
      RequestLine("gin", NoRequestId, LineTs(2), 200, CompletionsPath) }

Numbered(proto, n) ==
    [n |-> n, part |-> "whole", fmt |-> proto.fmt, rid |-> proto.rid,
     ts |-> proto.ts, status |-> proto.status, path |-> proto.path,
     marker |-> proto.marker, hinted |-> proto.hinted,
     inline |-> proto.inline]

\* the file ends inside a line: its last write was the head of a line
Unfinished(data) == data # <<>> /\ data[Len(data)].part = "head"

LineNumbers(data) == {data[i].n : i \in 1..Len(data)}

NowMs == clock.day * MsPerDay + clock.hour * MsPerHour

\* the descriptors the live workers hold on log files
LogFds(workers) ==
    {workers[w].ino : w \in {x \in Workers : workers[x].pc # "none"}}

\* the log files after a step: those the path or a reader still names
LogsAfter(table, path, workers) ==
    Restrict(table, Referenced(table, {path}, LogFds(workers)))

\* the proxy appends one line to its log
ProxyWritesOf(pool) ==
    /\ logPath # 0
    /\ used.lines < MaxLines
    /\ ~Unfinished(logs[logPath])
    /\ \E proto \in pool :
         logs' = [logs EXCEPT
                    ![logPath] = Append(@, Numbered(proto, used.lines + 1))]
    /\ used' = [used EXCEPT !.lines = @ + 1]
    /\ delivered' = delivered @@ ((used.lines + 1) :> 0)
    /\ UNCHANGED <<storeVars, logPath, lifeVars, wk, clock, emitted, replayed,
                   fragments, committed, cmdVars>>
    /\ UNCHANGED appVars

ProxyWrites == ProxyWritesOf(LinePool)

ProxyWritesAny == ProxyWritesOf(ParsePool)

\* the proxy's write of a line reaches the file in two parts: the head ...
ProxyWritesHead ==
    /\ logPath # 0
    /\ used.lines < MaxLines
    /\ ~Unfinished(logs[logPath])
    /\ \E proto \in LinePool :
         logs' = [logs EXCEPT
                    ![logPath] = Append(@, [Numbered(proto, used.lines + 1)
                                               EXCEPT !.part = "head"])]
    /\ used' = [used EXCEPT !.lines = @ + 1]
    /\ delivered' = delivered @@ ((used.lines + 1) :> 0)
    /\ UNCHANGED <<storeVars, logPath, lifeVars, wk, clock, emitted, replayed,
                   fragments, committed, cmdVars, appVars>>

\* ... and the tail with the newline
ProxyWritesTail ==
    /\ logPath # 0
    /\ Unfinished(logs[logPath])
    /\ logs' = [logs EXCEPT
                  ![logPath] = Append(@, [@[Len(@)] EXCEPT !.part = "tail"])]
    /\ UNCHANGED <<storeVars, logPath, lifeVars, wk, clock, emitted, used,
                   ghostVars, cmdVars, appVars>>

\* the running proxy creates its log file
ProxyCreatesLog ==
    /\ logPath = 0
    /\ proxyUp
    /\ LET new == FreshInode(logs)
       IN  /\ logPath' = new
           /\ logs' = logs @@ (new :> <<>>)
    /\ UNCHANGED <<storeVars, lifeVars, wk, clock, emitted, used, ghostVars,
                   cmdVars, appVars>>

\* rotation by truncation: the same file, emptied
RotateTruncate ==
    /\ logPath # 0
    /\ used.rotations < MaxRotations
    /\ logs[logPath] # <<>>
    /\ logs' = [logs EXCEPT ![logPath] = <<>>]
    /\ used' = [used EXCEPT !.rotations = @ + 1]
    /\ UNCHANGED <<storeVars, logPath, lifeVars, wk, clock, emitted, ghostVars, cmdVars>>
    /\ UNCHANGED appVars

\* rotation by replacement: the old file renamed away, a new one at the path
RotateReplace ==
    /\ logPath # 0
    /\ used.rotations < MaxRotations
    /\ logs[logPath] # <<>>
    /\ LET new == FreshInode(logs)
       IN  /\ logPath' = new
           /\ logs' = LogsAfter(logs @@ (new :> <<>>), new, wk)
    /\ used' = [used EXCEPT !.rotations = @ + 1]
    /\ UNCHANGED <<storeVars, lifeVars, wk, clock, emitted, ghostVars, cmdVars>>
    /\ UNCHANGED appVars

\* the wall clock passes into the next hour, or into the next day
Tick ==
    /\ used.ticks < MaxTicks
    /\ \/ clock' = [clock EXCEPT !.hour = @ + 1]
       \/ clock' = [clock EXCEPT !.day = @ + 1, !.hour = 0]
    /\ used' = [used EXCEPT !.ticks = @ + 1]
    /\ UNCHANGED <<storeVars, logVars, lifeVars, wk, emitted, ghostVars, cmdVars>>
    /\ UNCHANGED appVars

(***************************************************************************)
(* The threads of the commands, at rest.                                   *)
(***************************************************************************)
NoPayload ==
    [requests_by_day |-> <<>>, tokens_by_day |-> <<>>,
     requests_by_hour |-> <<>>, tokens_by_hour |-> <<>>, apis |-> <<>>]

\* ret is what the call has returned to its caller and fault is what went
\* wrong on its way, both read while pc = "done"
NoSync ==
    [pc |-> "idle", variant |-> "none", payload |-> NoPayload, today |-> 0,
     hist |-> DefaultHistory, agg |-> DefaultAggregate, fd |-> 0,
     ret |-> "none", fault |-> "none"]

NoAdd == [pc |-> "idle", hist |-> DefaultHistory]

NoClear == [pc |-> "idle"]

(***************************************************************************)
(* The tail worker: the thread of start_log_watcher.                       *)
(***************************************************************************)
NoWorker ==
    [pc |-> "none", attempts |-> 0, ino |-> 0, off |-> 0, last_pos |-> 0,
     ev |-> NoEvent, hist |-> DefaultHistory, agg |-> DefaultAggregate,
     fd |-> 0, pre |-> {}, cache |-> EmptyCache]

\* a thread that has returned leaves nothing behind
ExitedWorker == NoWorker

SpawnedWorker == [NoWorker EXCEPT !.pc = "wait"]

\* the worker is in its poll loop (lines 301-411)
PollPcs == {"poll", "read", "loadhist", "loadagg", "openhist", "writehist",
            "opentmp", "writetmp", "rename"}

InPollLoop(w) == wk[w].pc \in PollPcs

\* the worker is on its way to the loop condition of line 301: it is in
\* the loop, or the log file is there and the wait of lines 267-277 ends
ReachesCheck(w) ==
    \/ InPollLoop(w)
    \/ wk[w].pc \in {"wait", "open"} /\ logPath # 0

FreeSlots == {w \in Workers : wk[w].pc = "none"}

\* the descriptors open on files of the aggregate store
StoreFds(workers, sync) ==
    {workers[w].fd : w \in {x \in Workers : workers[x].pc = "writetmp"}}
    \cup (IF sync.pc = "writetmp" THEN {sync.fd} ELSE {})

StoreAfter(table, agg, tmp, workers, sync) ==
    Restrict(table, Referenced(table, {agg, tmp}, StoreFds(workers, sync)))

\* a wait for the log file that never gives up
WaitForLogUnbounded(w) ==
    /\ proc = "up"
    /\ wk[w].pc = "wait"
    /\ wk' = [wk EXCEPT ![w] =
                IF logPath # 0 THEN [@ EXCEPT !.pc = "open"]
                ELSE [@ EXCEPT !.attempts = @ + 1]]
    /\ UNCHANGED <<storeVars, logVars, lifeVars, clock, emitted, used,
                   ghostVars, cmdVars, appVars>>

\* lines 267-277: wait for the log file, at most MaxAttempts sleeps
WaitForLog(w) ==
    /\ proc = "up"
    /\ wk[w].pc = "wait"
    /\ wk' = [wk EXCEPT ![w] =
                IF logPath # 0 THEN [@ EXCEPT !.pc = "open"]
                ELSE IF @.attempts < MaxAttempts
                     THEN [@ EXCEPT !.attempts = @ + 1]
                     ELSE ExitedWorker]
    /\ UNCHANGED <<storeVars, logVars, lifeVars, clock, emitted, used, ghostVars, cmdVars>>
    /\ UNCHANGED appVars

\* line 301: the loop condition, read as soon as the worker comes to it;
\* the worker then sleeps (line 302) or returns
LoopOrExit(me) ==
    IF running THEN [me EXCEPT !.pc = "poll"] ELSE ExitedWorker

AttachAtStart(w) ==
    [wk[w] EXCEPT !.ino = logPath, !.off = 0, !.last_pos = 0,
                  !.pre = LineNumbers(logs[logPath])]

\* lines 279-296: open the file, seek to its end, record the position
AttachAtEnd(w) ==
    [wk[w] EXCEPT !.ino = logPath,
                  !.off = Len(logs[logPath]),
                  !.last_pos = Len(logs[logPath]),
                  !.pre = LineNumbers(logs[logPath])]

Attach(w) ==
    /\ proc = "up"
    /\ wk[w].pc = "open"
    /\ wk' = [wk EXCEPT ![w] = IF logPath = 0 THEN ExitedWorker
                               ELSE LoopOrExit(AttachAtEnd(w))]
    /\ logs' = LogsAfter(logs, logPath, wk')
    /\ UNCHANGED <<storeVars, logPath, lifeVars, clock, emitted, used, ghostVars, cmdVars>>
    /\ UNCHANGED appVars

\* lines 280-293: File::open or the seek to the end fails; the thread
\* prints the error and returns
AttachFails(w) ==
    /\ proc = "up"
    /\ wk[w].pc = "open"
    /\ used.faults < MaxFaults
    /\ used' = [used EXCEPT !.faults = @ + 1]
    /\ wk' = [wk EXCEPT ![w] = ExitedWorker]
    /\ logs' = LogsAfter(logs, logPath, wk')
    /\ UNCHANGED <<storeVars, logPath, lifeVars, clock, emitted, ghostVars,
                   cmdVars, appVars>>

\* lines 302-325: the sleep is over; compare the file's size with the last
\* position
Poll(w) ==
    /\ proc = "up"
    /\ wk[w].pc = "poll"
    /\ LET me == wk[w]
           current_size == IF logPath # 0 THEN Len(logs[logPath])
                           ELSE me.last_pos
       IN  wk' = [wk EXCEPT ![w] =
                    IF current_size > me.last_pos
                    THEN [me EXCEPT !.pc = "read"]
                    ELSE IF current_size < me.last_pos
                         THEN IF logPath # 0
                              THEN LoopOrExit([me EXCEPT !.last_pos = 0,
                                                         !.ino = logPath,
                                                         !.off = 0])
                              ELSE LoopOrExit([me EXCEPT !.last_pos = 0])
                         ELSE LoopOrExit(me)]
    /\ logs' = LogsAfter(logs, logPath, wk')
    /\ UNCHANGED <<storeVars, logPath, lifeVars, clock, emitted, used, ghostVars, cmdVars>>
    /\ UNCHANGED appVars

\* BufRead::read_line at a position: the bytes up to and with the next
\* newline, or up to the end of the file when no newline follows.  A head
\* is returned with its tail when the tail is in the file, else alone.
ReadLineAt(data, off) ==
    LET piece == data[off + 1]
    IN  IF piece.part = "head" /\ off + 2 <= Len(data)
        THEN [line |-> [piece EXCEPT !.part = "whole"], len |-> 2]
        ELSE [line |-> piece, len |-> 1]

\* lines 329-333 and 407-410: read_line; at the end of the file record the
\* position; else parse the line and emit the event it yields
ReadLine(w) ==
    /\ proc = "up"
    /\ wk[w].pc = "read"
    /\ LET me == wk[w]
           data == logs[me.ino]
       IN  IF me.off >= Len(data)
           THEN /\ wk' = [wk EXCEPT ![w] =
                            LoopOrExit([me EXCEPT !.last_pos = me.off])]
                /\ UNCHANGED <<counter, emitted, delivered, replayed,
                               fragments>>
           ELSE LET line == ReadLineAt(data, me.off).line
                    len == ReadLineAt(data, me.off).len
                    ev == ParseGinLogLine(line, counter, me.cache, NowMs)
                IN  /\ IF line.part = "whole"
                       THEN /\ delivered' = [delivered EXCEPT ![line.n] = @ + 1]
                            /\ replayed' = IF line.n \in me.pre
                                           THEN replayed \cup {line.n}
                                           ELSE replayed
                            /\ UNCHANGED fragments
                       ELSE /\ fragments' = fragments \cup {line.n}
                            /\ UNCHANGED <<delivered, replayed>>
                    /\ IF ev.kind = "event"
                       THEN /\ counter' = counter + 1
                            /\ emitted' = emitted \cup {ev}
                            /\ wk' = [wk EXCEPT ![w] =
                                        [me EXCEPT !.pc = "loadhist",
                                                   !.off = @ + len, !.ev = ev]]
                       ELSE /\ \E cache \in CachesAfter(line, me.cache) :
                                 wk' = [wk EXCEPT ![w] =
                                          [me EXCEPT !.off = @ + len,
                                                     !.cache = cache]]
                            /\ UNCHANGED <<counter, emitted>>
    /\ logs' = LogsAfter(logs, logPath, wk')
    /\ UNCHANGED <<storeVars, logPath, proc, running, proxyUp, starter,
                   clock, used, committed, cmdVars>>
    /\ UNCHANGED appVars

\* line 336-343: load the history and look for the event's timestamp and path
LoadHistoryAndDedup(w) ==
    /\ proc = "up"
    /\ wk[w].pc = "loadhist"
    /\ LET history == LoadRequestHistory
       IN  wk' = [wk EXCEPT ![w] =
                    IF IsDuplicate(history, @.ev)
                    THEN [@ EXCEPT !.pc = "read", !.ev = NoEvent]
                    ELSE [@ EXCEPT !.pc = "loadagg", !.hist = history]]
    /\ UNCHANGED <<storeVars, logVars, lifeVars, clock, emitted, used, ghostVars, cmdVars>>
    /\ UNCHANGED appVars

\* lines 345-396: load the aggregate, fold the event into it and append the
\* event to the history
LoadAggregateAndFold(w) ==
    /\ proc = "up"
    /\ wk[w].pc = "loadagg"
    /\ LET me == wk[w]
       IN  wk' = [wk EXCEPT ![w] =
                    [me EXCEPT !.pc = "openhist",
                               !.agg = FoldEvent(LoadAggregate, me.ev,
                                                 clock.day, clock.hour),
                               !.hist = PushRequest(me.hist, me.ev)]]
    /\ UNCHANGED <<storeVars, logVars, lifeVars, clock, emitted, used, ghostVars, cmdVars>>
    /\ UNCHANGED appVars

\* save_request_history, lines 29-38: std::fs::write creates or truncates
\* history.json ...
OpenHistory(w) ==
    /\ proc = "up"
    /\ wk[w].pc = "openhist"
    /\ histFile' = EmptyFile(DefaultHistory)
    /\ wk' = [wk EXCEPT ![w].pc = "writehist"]
    /\ UNCHANGED <<inodes, aggPath, tmpPath, logVars, lifeVars, clock,
                   emitted, used, ghostVars, cmdVars>>
    /\ UNCHANGED appVars

\* ... and writes the trimmed history into it
WriteHistory(w) ==
    /\ proc = "up"
    /\ wk[w].pc = "writehist"
    /\ histFile' = Full([wk[w].hist EXCEPT !.requests = TrimRequests(@)])
    /\ wk' = [wk EXCEPT ![w].pc = "opentmp"]
    /\ UNCHANGED <<inodes, aggPath, tmpPath, logVars, lifeVars, clock,
                   emitted, used, ghostVars, cmdVars>>
    /\ UNCHANGED appVars

\* line 399-401: the history cannot be written; the error is printed
OpenHistoryFails(w) ==
    /\ proc = "up"
    /\ wk[w].pc = "openhist"
    /\ used.faults < MaxFaults
    /\ used' = [used EXCEPT !.faults = @ + 1]
    /\ wk' = [wk EXCEPT ![w].pc = "opentmp"]
    /\ UNCHANGED <<storeVars, logVars, lifeVars, clock, emitted, ghostVars, cmdVars>>
    /\ UNCHANGED appVars

\* the file std::fs::write(path) opens: the path's inode truncated, or a new one
OpenedForWrite(path) == IF path # 0 THEN path ELSE FreshInode(inodes)

\* save_aggregate writing in place: the canonical file itself is opened
OpenCanonical(w) ==
    /\ aggPath' = OpenedForWrite(aggPath)
    /\ inodes' = [i \in (DOMAIN inodes) \cup {OpenedForWrite(aggPath)} |->
                    IF i = OpenedForWrite(aggPath)
                    THEN EmptyFile(DefaultAggregate) ELSE inodes[i]]
    /\ wk' = [wk EXCEPT ![w] = [@ EXCEPT !.pc = "writetmp",
                                         !.fd = OpenedForWrite(aggPath)]]
    /\ UNCHANGED tmpPath

\* save_aggregate, lines 55-57: std::fs::write creates or truncates
\* aggregate.json.tmp ...
OpenTemp(w) ==
    /\ tmpPath' = OpenedForWrite(tmpPath)
    /\ inodes' = [i \in (DOMAIN inodes) \cup {OpenedForWrite(tmpPath)} |->
                    IF i = OpenedForWrite(tmpPath)
                    THEN EmptyFile(DefaultAggregate) ELSE inodes[i]]
    /\ wk' = [wk EXCEPT ![w] = [@ EXCEPT !.pc = "writetmp",
                                         !.fd = OpenedForWrite(tmpPath)]]
    /\ UNCHANGED aggPath

SaveAggregateOpen(w) ==
    /\ proc = "up"
    /\ wk[w].pc = "opentmp"
    /\ OpenTemp(w)
    /\ UNCHANGED <<histFile, logVars, lifeVars, clock, emitted, used, ghostVars, cmdVars>>
    /\ UNCHANGED appVars

\* ... and writes the aggregate into it
SaveAggregateWrite(w) ==
    /\ proc = "up"
    /\ wk[w].pc = "writetmp"
    /\ wk' = [wk EXCEPT ![w] = [@ EXCEPT !.pc = "rename", !.fd = 0]]
    /\ inodes' = StoreAfter([inodes EXCEPT ![wk[w].fd] =
                                Overwritten(@, wk[w].agg)],
                            aggPath, tmpPath, wk', sy)
    /\ UNCHANGED <<aggPath, tmpPath, histFile, logVars, lifeVars, clock,
                   emitted, used, ghostVars, cmdVars>>
    /\ UNCHANGED appVars

\* save_aggregate, line 58: rename the temporary file over aggregate.json;
\* without a temporary file the rename fails
SaveAggregateRename(w) ==
    /\ proc = "up"
    /\ wk[w].pc = "rename"
    /\ IF tmpPath # 0
       THEN /\ aggPath' = tmpPath
            /\ tmpPath' = 0
            /\ inodes' = StoreAfter(inodes, tmpPath, 0, wk, sy)
            /\ committed' = wk[w].agg
       ELSE UNCHANGED <<inodes, aggPath, tmpPath, committed>>
    /\ wk' = [wk EXCEPT ![w] = [@ EXCEPT !.pc = "read", !.ev = NoEvent,
                                         !.hist = DefaultHistory,
                                         !.agg = DefaultAggregate]]
    /\ UNCHANGED <<histFile, logVars, lifeVars, clock, emitted, used,
                   delivered, replayed, fragments, cmdVars>>
    /\ UNCHANGED appVars

\* lines 402-404: the temporary file cannot be created; the error is printed
SaveAggregateOpenFails(w) ==
    /\ proc = "up"
    /\ wk[w].pc = "opentmp"
    /\ used.faults < MaxFaults
    /\ used' = [used EXCEPT !.faults = @ + 1]
    /\ wk' = [wk EXCEPT ![w] = [@ EXCEPT !.pc = "read", !.ev = NoEvent,
                                         !.hist = DefaultHistory,
                                         !.agg = DefaultAggregate]]
    /\ UNCHANGED <<storeVars, logVars, lifeVars, clock, emitted, ghostVars, cmdVars>>
    /\ UNCHANGED appVars

\* lines 402-404: the rename fails; the error is printed
SaveAggregateRenameFails(w) ==
    /\ proc = "up"
    /\ wk[w].pc = "rename"
    /\ used.faults < MaxFaults
    /\ used' = [used EXCEPT !.faults = @ + 1]
    /\ wk' = [wk EXCEPT ![w] = [@ EXCEPT !.pc = "read", !.ev = NoEvent,
                                         !.hist = DefaultHistory,
                                         !.agg = DefaultAggregate]]
    /\ UNCHANGED <<storeVars, logVars, lifeVars, clock, emitted, ghostVars, cmdVars>>
    /\ UNCHANGED appVars

(***************************************************************************)
(* The authoritative sync: sync_usage_from_proxy (the command) and         *)
(* sync_usage_from_proxy_blocking (run by get_usage_stats).  A payload is  *)
(* the "usage" object of the proxy's answer: its four series in the order  *)
(* of their keys and its models in the order the loops visit them.  An     *)
(* hour entry has a key of two characters (short, the hour of the day) or  *)
(* a whole label.                                                          *)
(***************************************************************************)
RECURSIVE SumValues(_)
SumValues(series) ==
    IF series = <<>> THEN 0 ELSE series[1].value + SumValues(Tail(series))

RECURSIVE SumField(_, _)
SumField(details, f) ==
    IF details = <<>> THEN 0 ELSE details[1][f] + SumField(Tail(details), f)

\* the merge loops: the value of the first point with the label is
\* replaced, a point with a new label is pushed
MergePoint(series, p) ==
    LET i == Find(series, p.label) IN
    IF i # 0 THEN [series EXCEPT ![i].value = p.value] ELSE Append(series, p)

RECURSIVE MergeSeries(_, _)
MergeSeries(series, points) ==
    IF points = <<>> THEN series
    ELSE MergeSeries(MergePoint(series, points[1]), Tail(points))

\* format!("{}T{}", today, hour) for a key of two characters
HourPoint(entry, today) ==
    Point(IF entry.short THEN HourLabel(today, entry.key) ELSE entry.key,
          entry.value)

NormalizeHours(entries, today) ==
    [i \in 1..Len(entries) |-> HourPoint(entries[i], today)]

\* the series the command parses from the payload: sorted, cut to their
\* last 14 days and 168 hours
CommandDays(points) == KeepLast(SortByLabel(points), MaxSyncDays)

CommandHours(entries, today) ==
    KeepLast(SortByLabel(NormalizeHours(entries, today)), MAX_HOURLY_POINTS)

\* the series sync_usage_from_proxy_blocking parses: sorted, not cut
BlockingDays(points) == SortByLabel(points)

BlockingHours(entries, today) == SortByLabel(NormalizeHours(entries, today))

\* the sum of a token field over the details of every model of every api
RECURSIVE TotalOf(_, _)
TotalOf(apis, f) ==
    IF apis = <<>> THEN 0
    ELSE SumField(apis[1].details, f) + TotalOf(Tail(apis), f)

\* the entries of one model
RECURSIVE EntriesOf(_, _)
EntriesOf(apis, model) ==
    IF apis = <<>> THEN <<>>
    ELSE IF apis[1].model = model
         THEN <<apis[1]>> \o EntriesOf(Tail(apis), model)
         ELSE EntriesOf(Tail(apis), model)

ModelsOf(apis) == {apis[i].model : i \in 1..Len(apis)}

\* crate::utils, outside the files of this model: the price of a request,
\* here one unit for every token
EstimateRequestCost(model, input, output) == input + output

\* the cast "as u32" of line 755: the low 32 bits, taken as two halves of
\* 16 bits
AsU32(x) == (((x \div (2 ^ 16)) % (2 ^ 16)) * (2 ^ 16)) + (x % (2 ^ 16))

RECURSIVE CostOfModels(_, _)
CostOfModels(apis, models) ==
    IF models = {} THEN 0
    ELSE LET m == CHOOSE x \in models : TRUE
         IN  EstimateRequestCost(m,
                 AsU32(TotalOf(EntriesOf(apis, m), "input_tokens")),
                 AsU32(TotalOf(EntriesOf(apis, m), "output_tokens")))
             + CostOfModels(apis, models \ {m})

TotalCost(apis) == CostOfModels(apis, ModelsOf(apis))

\* lines 944-997: the stats of every model entry replace the aggregate's
RECURSIVE ReplaceModelStats(_, _)
ReplaceModelStats(stats, apis) ==
    IF apis = <<>> THEN stats
    ELSE ReplaceModelStats(
             MapPut(stats, apis[1].model,
                 [requests |-> apis[1].total_requests,
                  success_count |-> apis[1].total_requests,
                  tokens |-> apis[1].total_tokens,
                  input_tokens |-> SumField(apis[1].details, "input_tokens"),
                  output_tokens |-> SumField(apis[1].details, "output_tokens"),
                  cached_tokens |-> SumField(apis[1].details, "cached_tokens")]),
             Tail(apis))

\* lines 234-278: the stats of a model summed over its entries
RECURSIVE SumRequests(_, _)
SumRequests(apis, f) ==
    IF apis = <<>> THEN 0 ELSE apis[1][f] + SumRequests(Tail(apis), f)

BlockingModelStats(apis) ==
    [m \in ModelsOf(apis) |->
        [requests |-> SumRequests(EntriesOf(apis, m), "total_requests"),
         success_count |-> SumRequests(EntriesOf(apis, m), "total_requests"),
         tokens |-> SumRequests(EntriesOf(apis, m), "total_tokens"),
         input_tokens |-> TotalOf(EntriesOf(apis, m), "input_tokens"),
         output_tokens |-> TotalOf(EntriesOf(apis, m), "output_tokens"),
         cached_tokens |-> TotalOf(EntriesOf(apis, m), "cached_tokens")]]

\* lines 345-356: the summed stats replace the aggregate's
MergeModelStats(stats, synced) ==
    [m \in (DOMAIN stats) \cup (DOMAIN synced) |->
        IF m \in DOMAIN synced THEN synced[m] ELSE stats[m]]

RECURSIVE SumSuccess(_, _)
SumSuccess(stats, models) ==
    IF models = {} THEN 0
    ELSE LET m == CHOOSE x \in models : TRUE
         IN  stats[m].success_count + SumSuccess(stats, models \ {m})

\* lines 1000-1003 and 362-365
RaiseSuccess(agg) ==
    LET synced_success == SumSuccess(agg.model_stats, DOMAIN agg.model_stats)
    IN  IF synced_success > agg.total_success_count
        THEN [agg EXCEPT !.total_success_count = synced_success]
        ELSE agg

\* sync_usage_from_proxy, lines 861-1005: the aggregate after the merge
CommandAggregate(agg, payload, today) ==
    LET requests_by_day == CommandDays(payload.requests_by_day)
        a1 == [agg EXCEPT
                 !.total_tokens_in = TotalOf(payload.apis, "input_tokens"),
                 !.total_tokens_out = TotalOf(payload.apis, "output_tokens"),
                 !.total_cost_usd = TotalCost(payload.apis),
                 !.tokens_by_day =
                     SortByLabel(MergeSeries(@, CommandDays(payload.tokens_by_day))),
                 !.requests_by_day =
                     SortByLabel(MergeSeries(@, requests_by_day)),
                 !.requests_by_hour =
                     KeepLast(SortByLabel(MergeSeries(@,
                         CommandHours(payload.requests_by_hour, today))),
                              MAX_HOURLY_POINTS),
                 !.tokens_by_hour =
                     KeepLast(SortByLabel(MergeSeries(@,
                         CommandHours(payload.tokens_by_hour, today))),
                              MAX_HOURLY_POINTS)]
        a2 == IF requests_by_day # <<>>
                 /\ SumValues(requests_by_day) > a1.total_requests
              THEN [a1 EXCEPT !.total_requests = SumValues(requests_by_day)]
              ELSE a1
        a3 == RaiseSuccess([a2 EXCEPT
                 !.model_stats = ReplaceModelStats(@, payload.apis)])
    IN  [a3 EXCEPT !.total_tokens_cached = TotalOf(payload.apis, "cached_tokens")]

\* sync_usage_from_proxy_blocking, lines 281-365
BlockingAggregate(agg, payload, today) ==
    LET total_requests == SumRequests(payload.apis, "total_requests")
        a1 == [agg EXCEPT
                 !.tokens_by_day =
                     SortByLabel(MergeSeries(@, BlockingDays(payload.tokens_by_day))),
                 !.tokens_by_hour =
                     KeepLast(SortByLabel(MergeSeries(@,
                         BlockingHours(payload.tokens_by_hour, today))),
                              MAX_HOURLY_POINTS),
                 !.requests_by_day =
                     SortByLabel(MergeSeries(@, BlockingDays(payload.requests_by_day))),
                 !.requests_by_hour =
                     KeepLast(SortByLabel(MergeSeries(@,
                         BlockingHours(payload.requests_by_hour, today))),
                              MAX_HOURLY_POINTS),
                 !.model_stats =
                     MergeModelStats(@, BlockingModelStats(payload.apis))]
        a2 == IF total_requests > a1.total_requests
              THEN [a1 EXCEPT !.total_requests = total_requests]
              ELSE a1
    IN  RaiseSuccess(a2)

\* sync_usage_from_proxy, lines 849-855: the history with the payload's totals
CommandHistory(history, payload, today) ==
    [history EXCEPT
       !.total_tokens_in = TotalOf(payload.apis, "input_tokens"),
       !.total_tokens_out = TotalOf(payload.apis, "output_tokens"),
       !.total_tokens_cached = TotalOf(payload.apis, "cached_tokens"),
       !.total_cost_usd = TotalCost(payload.apis),
       !.tokens_by_day = CommandDays(payload.tokens_by_day),
       !.tokens_by_hour = CommandHours(payload.tokens_by_hour, today)]

\* what the proxy answers (the environment): its counts of today; its
\* counts after it was restarted and began to count again; and a point for
\* every day since day 1
Tokens(i, o, c) ==
    [input_tokens |-> i, output_tokens |-> o, cached_tokens |-> c]

Payloads ==
    { [requests_by_day |-> <<Point(Today, 8)>>,
       tokens_by_day |-> <<Point(Today, 30)>>,
       requests_by_hour |-> <<[short |-> TRUE, key |-> 0, value |-> 8]>>,
       tokens_by_hour |-> <<[short |-> TRUE, key |-> 0, value |-> 30]>>,
       apis |-> <<[model |-> "claude-x", total_requests |-> 8,
                   total_tokens |-> 30, details |-> <<Tokens(10, 20, 5)>>]>>],
      [requests_by_day |-> <<Point(Today, 1)>>,
       tokens_by_day |-> <<Point(Today, 3)>>,
       requests_by_hour |-> <<>>,
       tokens_by_hour |-> <<>>,
       apis |-> <<[model |-> "claude-x", total_requests |-> 1,
                   total_tokens |-> 3, details |-> <<Tokens(1, 2, 0)>>]>>],
      [requests_by_day |-> [d \in 1..Today |-> Point(d, 1)],
       tokens_by_day |-> [d \in 1..Today |-> Point(d, 2)],
       requests_by_hour |-> <<>>,
       tokens_by_hour |-> <<>>,
       apis |-> <<>>] }

\* payloads of a proxy that served two apis: one model under both, or a
\* model under each
SharedPayloads ==
    { [requests_by_day |-> <<Point(Today, 8)>>,
       tokens_by_day |-> <<Point(Today, 30)>>,
       requests_by_hour |-> <<>>,
       tokens_by_hour |-> <<>>,
       apis |-> <<[model |-> "claude-x", total_requests |-> 3,
                   total_tokens |-> 10, details |-> <<Tokens(4, 6, 1)>>],
                  [model |-> "claude-x", total_requests |-> 5,
                   total_tokens |-> 20, details |-> <<Tokens(6, 14, 4)>>]>>],
      [requests_by_day |-> <<Point(Today, 8)>>,
       tokens_by_day |-> <<Point(Today, 30)>>,
       requests_by_hour |-> <<>>,
       tokens_by_hour |-> <<>>,
       apis |-> <<[model |-> "claude-x", total_requests |-> 3,
                   total_tokens |-> 10, details |-> <<Tokens(4, 6, 1)>>],
                  [model |-> "gemini-pro", total_requests |-> 5,
                   total_tokens |-> 20, details |-> <<Tokens(6, 14, 4)>>]>>] }

\* the request is answered with a payload.  get_usage_stats runs the
\* blocking sync only while the tracked status says the proxy is running.
SyncFetchOf(payloads) ==
    /\ proc = "up"
    /\ sy.pc = "idle"
    /\ used.syncs < MaxSyncs
    /\ \E payload \in payloads, variant \in {"command", "blocking"} :
         /\ variant = "blocking" => proxyUp
         /\ sy' = [sy EXCEPT !.pc = IF variant = "command" THEN "loadhist"
                                    ELSE "loadagg",
                             !.variant = variant,
                             !.payload = payload,
                             !.today = clock.day]
    /\ used' = [used EXCEPT !.syncs = @ + 1]
    /\ UNCHANGED <<storeVars, logVars, lifeVars, wk, clock, emitted, ad,
                   ghostVars>>
    /\ UNCHANGED appVars

SyncFetch == SyncFetchOf(Payloads)

SyncFetchShared == SyncFetchOf(SharedPayloads)

\* payloads with a label later than the hour and the date the tail worker
\* stamps: a two-character hour key the proxy counted on an earlier day,
\* which the sync dates today, or the date of a proxy whose clock is ahead
AheadPayloads ==
    { [requests_by_day |-> <<Point(Today, 2)>>,
       tokens_by_day |-> <<Point(Today, 6)>>,
       requests_by_hour |-> <<[short |-> TRUE, key |-> 1, value |-> 2]>>,
       tokens_by_hour |-> <<[short |-> TRUE, key |-> 1, value |-> 6]>>,
       apis |-> <<[model |-> "claude-x", total_requests |-> 2,
                   total_tokens |-> 6, details |-> <<Tokens(2, 4, 0)>>]>>],
      [requests_by_day |-> <<Point(Today + 1, 2)>>,
       tokens_by_day |-> <<Point(Today + 1, 6)>>,
       requests_by_hour |-> <<>>,
       tokens_by_hour |-> <<>>,
       apis |-> <<[model |-> "claude-x", total_requests |-> 2,
                   total_tokens |-> 6, details |-> <<Tokens(2, 4, 0)>>]>>] }

SyncFetchAhead == SyncFetchOf(AheadPayloads)

\* sync_usage_from_proxy, lines 849-855
SyncLoadHistory ==
    /\ proc = "up"
    /\ sy.pc = "loadhist"
    /\ sy' = [sy EXCEPT !.pc = "openhist",
                        !.hist = CommandHistory(LoadRequestHistory,
                                                sy.payload, sy.today)]
    /\ UNCHANGED <<storeVars, logVars, lifeVars, wk, clock, emitted, ad, used,
                   ghostVars>>
    /\ UNCHANGED appVars

\* line 858: save_request_history creates or truncates history.json ...
SyncOpenHistory ==
    /\ proc = "up"
    /\ sy.pc = "openhist"
    /\ histFile' = EmptyFile(DefaultHistory)
    /\ sy' = [sy EXCEPT !.pc = "writehist"]
    /\ UNCHANGED <<inodes, aggPath, tmpPath, logVars, lifeVars, wk, clock,
                   emitted, ad, used, ghostVars>>
    /\ UNCHANGED appVars

\* ... and writes the trimmed history into it
SyncWriteHistory ==
    /\ proc = "up"
    /\ sy.pc = "writehist"
    /\ histFile' = Full([sy.hist EXCEPT !.requests = TrimRequests(@)])
    /\ sy' = [sy EXCEPT !.pc = "loadagg", !.hist = DefaultHistory]
    /\ UNCHANGED <<inodes, aggPath, tmpPath, logVars, lifeVars, wk, clock,
                   emitted, ad, used, ghostVars>>
    /\ UNCHANGED appVars

\* lines 861-1005 and 281-365: load the aggregate and merge the payload
SyncLoadAggregate ==
    /\ proc = "up"
    /\ sy.pc = "loadagg"
    /\ sy' = [sy EXCEPT
                !.pc = "opentmp",
                !.agg = IF sy.variant = "command"
                        THEN CommandAggregate(LoadAggregate, sy.payload, sy.today)
                        ELSE BlockingAggregate(LoadAggregate, sy.payload,
                                               sy.today)]
    /\ UNCHANGED <<storeVars, logVars, lifeVars, wk, clock, emitted, ad, used,
                   ghostVars>>
    /\ UNCHANGED appVars

\* lines 1007 and 367: save_aggregate creates or truncates the temporary file
SyncSaveOpen ==
    /\ proc = "up"
    /\ sy.pc = "opentmp"
    /\ tmpPath' = OpenedForWrite(tmpPath)
    /\ inodes' = [i \in (DOMAIN inodes) \cup {OpenedForWrite(tmpPath)} |->
                    IF i = OpenedForWrite(tmpPath)
                    THEN EmptyFile(DefaultAggregate) ELSE inodes[i]]
    /\ sy' = [sy EXCEPT !.pc = "writetmp", !.fd = OpenedForWrite(tmpPath)]
    /\ UNCHANGED <<aggPath, histFile, logVars, lifeVars, wk, clock, emitted,
                   ad, used, ghostVars>>
    /\ UNCHANGED appVars

\* ... writes the aggregate into it
SyncSaveWrite ==
    /\ proc = "up"
    /\ sy.pc = "writetmp"
    /\ sy' = [sy EXCEPT !.pc = "rename", !.fd = 0]
    /\ inodes' = StoreAfter([inodes EXCEPT ![sy.fd] = Overwritten(@, sy.agg)],
                            aggPath, tmpPath, wk, sy')
    /\ UNCHANGED <<aggPath, tmpPath, histFile, logVars, lifeVars, wk, clock,
                   emitted, ad, used, ghostVars>>
    /\ UNCHANGED appVars

\* what a sync returns: the command a Result (lines 673 and 1009), the
\* blocking sync nothing (line 138)
ReturnOf(variant, result) == IF variant = "command" THEN result ELSE "unit"

\* the sync has returned
Returned(variant, result, fault) ==
    [NoSync EXCEPT !.pc = "done", !.variant = variant,
                   !.ret = ReturnOf(variant, result), !.fault = fault]

\* ... and renames it over aggregate.json; the result is dropped (let _ =)
\* and the command returns Ok (lines 1007-1009 and 367)
SyncSaveRename ==
    /\ proc = "up"
    /\ sy.pc = "rename"
    /\ IF tmpPath # 0
       THEN /\ aggPath' = tmpPath
            /\ tmpPath' = 0
            /\ inodes' = StoreAfter(inodes, tmpPath, 0, wk, sy)
            /\ committed' = sy.agg
       ELSE UNCHANGED <<inodes, aggPath, tmpPath, committed>>
    /\ sy' = Returned(sy.variant, "Ok", IF tmpPath # 0 THEN "none" ELSE "save")
    /\ UNCHANGED <<histFile, logVars, lifeVars, wk, clock, emitted, ad, used,
                   delivered, replayed, fragments>>
    /\ UNCHANGED appVars

\* the caller has the result of the call
SyncReturn ==
    /\ proc = "up"
    /\ sy.pc = "done"
    /\ sy' = NoSync
    /\ UNCHANGED <<storeVars, logVars, lifeVars, wk, clock, emitted, ad, used,
                   ghostVars>>
    /\ UNCHANGED appVars

\* what can go wrong with the request: it fails, its status is not a
\* success, its body is not JSON, the body has no "usage"
FetchFailures == {"network", "status", "json", "usage"}

\* lines 682-705: the command returns Err; lines 142-164: the blocking sync
\* returns
SyncFetchFails ==
    /\ proc = "up"
    /\ sy.pc = "idle"
    /\ used.syncs < MaxSyncs
    /\ \E failure \in FetchFailures, variant \in {"command", "blocking"} :
         /\ variant = "blocking" => proxyUp
         /\ sy' = Returned(variant, "Err", failure)
    /\ used' = [used EXCEPT !.syncs = @ + 1]
    /\ UNCHANGED <<storeVars, logVars, lifeVars, wk, clock, emitted, ad,
                   ghostVars>>
    /\ UNCHANGED appVars

\* line 858: save_request_history fails and the command returns its error
SyncHistoryFails ==
    /\ proc = "up"
    /\ sy.pc = "openhist"
    /\ used.faults < MaxFaults
    /\ used' = [used EXCEPT !.faults = @ + 1]
    /\ sy' = Returned(sy.variant, "Err", "history")
    /\ UNCHANGED <<storeVars, logVars, lifeVars, wk, clock, emitted, ad,
                   ghostVars>>
    /\ UNCHANGED appVars

\* lines 1007 and 367: the temporary file cannot be created; save_aggregate
\* returns Err, the result is dropped and the command returns Ok
SyncSaveOpenFails ==
    /\ proc = "up"
    /\ sy.pc = "opentmp"
    /\ used.faults < MaxFaults
    /\ used' = [used EXCEPT !.faults = @ + 1]
    /\ sy' = Returned(sy.variant, "Ok", "save")
    /\ UNCHANGED <<storeVars, logVars, lifeVars, wk, clock, emitted, ad,
                   ghostVars>>
    /\ UNCHANGED appVars

\* lines 1007 and 367: the rename fails; save_aggregate returns Err, the
\* result is dropped and the command returns Ok
SyncSaveRenameFails ==
    /\ proc = "up"
    /\ sy.pc = "rename"
    /\ used.faults < MaxFaults
    /\ used' = [used EXCEPT !.faults = @ + 1]
    /\ sy' = Returned(sy.variant, "Ok", "save")
    /\ UNCHANGED <<storeVars, logVars, lifeVars, wk, clock, emitted, ad,
                   ghostVars>>
    /\ UNCHANGED appVars

(***************************************************************************)
(* clear_request_history: save_request_history of the default history.     *)
(***************************************************************************)
\* a clear that removes aggregate.json with the history
ClearAllOpen ==
    /\ proc = "up"
    /\ cl.pc = "idle"
    /\ histFile' = EmptyFile(DefaultHistory)
    /\ aggPath' = 0
    /\ inodes' = StoreAfter(inodes, 0, tmpPath, wk, sy)
    /\ cl' = [pc |-> "writehist"]
    /\ UNCHANGED <<tmpPath, logVars, lifeVars, wk, clock, emitted, sy, ad,
                   used, ghostVars, cfg, toolVars>>

\* usage.rs, lines 665-667: std::fs::write creates or truncates
\* history.json ...
ClearOpen ==
    /\ proc = "up"
    /\ cl.pc = "idle"
    /\ histFile' = EmptyFile(DefaultHistory)
    /\ cl' = [pc |-> "writehist"]
    /\ UNCHANGED <<inodes, aggPath, tmpPath, logVars, lifeVars, wk, clock,
                   emitted, sy, ad, used, ghostVars, cfg, toolVars>>

\* ... and writes the default history into it
ClearWrite ==
    /\ proc = "up"
    /\ cl.pc = "writehist"
    /\ histFile' = Full([DefaultHistory EXCEPT !.requests = TrimRequests(@)])
    /\ cl' = NoClear
    /\ UNCHANGED <<inodes, aggPath, tmpPath, logVars, lifeVars, wk, clock,
                   emitted, sy, ad, used, ghostVars, cfg, toolVars>>

(***************************************************************************)
(* add_request_to_history: the frontend hands back an event it received.   *)
(***************************************************************************)
HasId(history, req) ==
    \E i \in 1..Len(history.requests) : history.requests[i].id = req.id

\* lines 628-654: the totals grow, the request is pushed unless its id is there
AddedToHistory(history, req) ==
    LET h1 == [history EXCEPT
                 !.total_tokens_in = @ + UnwrapOr0(req.tokens_in),
                 !.total_tokens_out = @ + UnwrapOr0(req.tokens_out),
                 !.total_tokens_cached = @ + UnwrapOr0(req.tokens_cached),
                 !.total_cost_usd = @ + EstimateRequestCost(req.model,
                                            UnwrapOr0(req.tokens_in),
                                            UnwrapOr0(req.tokens_out))]
    IN  IF HasId(h1, req) THEN h1
        ELSE [h1 EXCEPT !.requests = TrimRequests(Append(@, req))]

AddLoadOf(requests) ==
    /\ proc = "up"
    /\ ad.pc = "idle"
    /\ \E req \in requests :
         ad' = [pc |-> "openhist",
                hist |-> AddedToHistory(LoadRequestHistory, req)]
    /\ UNCHANGED <<storeVars, logVars, lifeVars, wk, clock, emitted, sy, used,
                   ghostVars>>
    /\ UNCHANGED appVars

\* the frontend passes an event it was sent
AddLoad == AddLoadOf(emitted)

\* the RequestLog values a caller of the command may pass for the events
\* it was sent: each as it was emitted, or with token counts filled in
CallerRequests ==
    emitted \cup {[ev EXCEPT !.tokens_in = 10, !.tokens_out = 20,
                             !.tokens_cached = 5] : ev \in emitted}

MaxAdds == 2

\* the calls with token counts end once MaxAdds of them are stored
AddLoadAny ==
    /\ LoadRequestHistory.total_tokens_in < 10 * MaxAdds
    /\ AddLoadOf(CallerRequests)

\* line 657: save_request_history creates or truncates history.json ...
AddOpen ==
    /\ proc = "up"
    /\ ad.pc = "openhist"
    /\ histFile' = EmptyFile(DefaultHistory)
    /\ ad' = [ad EXCEPT !.pc = "writehist"]
    /\ UNCHANGED <<inodes, aggPath, tmpPath, logVars, lifeVars, wk, clock,
                   emitted, sy, used, ghostVars>>
    /\ UNCHANGED appVars

\* ... and writes the trimmed history into it
AddWrite ==
    /\ proc = "up"
    /\ ad.pc = "writehist"
    /\ histFile' = Full([ad.hist EXCEPT !.requests = TrimRequests(@)])
    /\ ad' = NoAdd
    /\ UNCHANGED <<inodes, aggPath, tmpPath, logVars, lifeVars, wk, clock,
                   emitted, sy, used, ghostVars>>
    /\ UNCHANGED appVars

(***************************************************************************)
(* The watcher's lifecycle: start_proxy, stop_proxy, the proxy's death,    *)
(* and the host process itself.                                            *)
(***************************************************************************)
\* start_proxy, lines 518-696: not running by the tracked status; the proxy
\* is spawned; then the running flag is cleared.  More than 500 ms pass
\* between the call and line 696, so a worker that polls every 500 ms has
\* seen a flag that was already false when start_proxy was called.
StartProxyHalt ==
    /\ proc = "up"
    /\ starter = "idle"
    /\ ~proxyUp
    /\ FreeSlots # {}
    /\ running \/ \A w \in Workers : ~ReachesCheck(w)
    /\ running' = FALSE
    /\ starter' = "halted"
    /\ UNCHANGED <<storeVars, logVars, proc, proxyUp, counter, wk, clock,
                   emitted, used, ghostVars, cmdVars>>
    /\ UNCHANGED appVars

\* start_proxy, lines 697-721: 100 ms later the flag is set, a new worker
\* is spawned and the status becomes running
StartProxyResume ==
    /\ proc = "up"
    /\ starter = "halted"
    /\ running' = TRUE
    /\ FreeSlots # {}
    /\ wk' = [wk EXCEPT ![CHOOSE w \in FreeSlots :
                            \A x \in FreeSlots : w <= x] = SpawnedWorker]
    /\ proxyUp' = TRUE
    /\ starter' = "idle"
    /\ UNCHANGED <<storeVars, logVars, proc, counter, clock, emitted, used,
                   ghostVars, cmdVars>>
    /\ UNCHANGED appVars

\* stop_proxy, lines 739-779
StopProxy ==
    /\ proc = "up"
    /\ proxyUp
    /\ starter = "idle"
    /\ running' = FALSE
    /\ proxyUp' = FALSE
    /\ UNCHANGED <<storeVars, logVars, proc, counter, starter, wk, clock,
                   emitted, used, ghostVars, cmdVars>>
    /\ UNCHANGED appVars

\* start_proxy, lines 615-624: the proxy process ends by itself
ProxyTerminated ==
    /\ proc = "up"
    /\ proxyUp
    /\ proxyUp' = FALSE
    /\ UNCHANGED <<storeVars, logVars, proc, running, counter, starter, wk,
                   clock, emitted, used, ghostVars, cmdVars>>
    /\ UNCHANGED appVars

\* the host process dies: its threads end where they are, the files stay
Crash ==
    /\ proc = "up"
    /\ proc' = "down"
    /\ wk' = [w \in Workers |-> NoWorker]
    /\ running' = FALSE
    /\ proxyUp' = FALSE
    /\ starter' = "idle"
    /\ counter' = 0
    /\ emitted' = {}
    /\ sy' = NoSync
    /\ ad' = NoAdd
    /\ cl' = NoClear
    /\ cfg' = [cfg EXCEPT !.loaded = NoConfig]
    /\ inodes' = StoreAfter(inodes, aggPath, tmpPath, wk', sy')
    /\ logs' = LogsAfter(logs, logPath, wk')
    /\ UNCHANGED <<aggPath, tmpPath, histFile, logPath, clock, used, ghostVars>>
    /\ UNCHANGED toolVars

\* run, lines 217-253: migrate_to_split_storage, load_config, then a fresh
\* AppState
Boot ==
    /\ proc = "down"
    /\ proc' = "up"
    /\ IF aggPath = 0 /\ LoadRequestHistory.requests # <<>>
       THEN LET new == OpenedForWrite(tmpPath)
            IN  /\ aggPath' = new
                /\ tmpPath' = 0
                /\ inodes' = (new :> Full(MigratedAggregate(LoadRequestHistory)))
                /\ committed' = MigratedAggregate(LoadRequestHistory)
       ELSE UNCHANGED <<inodes, aggPath, tmpPath, committed>>
    /\ cfg' = [file |-> ConfigFileAfterLoad(cfg.file),
               loaded |-> LoadConfigFromPath(cfg.file)]
    /\ UNCHANGED <<histFile, logVars, running, proxyUp, counter, starter, wk,
                   clock, emitted, used, delivered, replayed, fragments,
                   cmdVars, cl, toolVars>>

(***************************************************************************)
(* Specifications.                                                         *)
(***************************************************************************)
NoDuration == [pc |-> "idle", token |-> <<>>, ms |-> 0]
NoYaml == [pc |-> "idle"]
NoRetry == [pc |-> "idle"]

\* no call of the three is under way
InitTools ==
    /\ dur = NoDuration
    /\ yaml = NoYaml
    /\ rq = NoRetry

InitFiles ==
    /\ inodes = EmptyMap
    /\ aggPath = 0
    /\ tmpPath = 0
    /\ histFile = [st |-> "absent", val |-> DefaultHistory]
    /\ logs = (1 :> <<>>)
    /\ logPath = 1
    /\ cfg = [file |-> MissingConfig, loaded |-> DefaultConfig]

InitThreads ==
    /\ proc = "up"
    /\ running = FALSE
    /\ proxyUp = FALSE
    /\ counter = 0
    /\ starter = "idle"
    /\ wk = [w \in Workers |-> NoWorker]
    /\ clock = [day |-> Today, hour |-> 0]
    /\ emitted = {}
    /\ used = [lines |-> 0, rotations |-> 0, faults |-> 0, ticks |-> 0,
               syncs |-> 0]
    /\ sy = NoSync
    /\ ad = NoAdd
    /\ cl = NoClear
    /\ delivered = EmptyMap
    /\ replayed = {}
    /\ fragments = {}
    /\ committed = DefaultAggregate

\* run, lines 251-252: the state of a process that has just started
InitProcess == InitThreads /\ InitTools

Init == InitFiles /\ InitProcess

WorkerReads(w) ==
    \/ WaitForLog(w)
    \/ Attach(w)
    \/ Poll(w)
    \/ ReadLine(w)

WorkerStores(w) ==
    \/ LoadHistoryAndDedup(w)
    \/ LoadAggregateAndFold(w)
    \/ OpenHistory(w)
    \/ WriteHistory(w)
    \/ SaveAggregateOpen(w)
    \/ SaveAggregateWrite(w)
    \/ SaveAggregateRename(w)

WorkerFaults(w) ==
    \/ OpenHistoryFails(w)
    \/ SaveAggregateOpenFails(w)
    \/ SaveAggregateRenameFails(w)

\* the tail reader: the proxy writes and rotates its log while the watcher
\* is started, stopped and started again
TailNext ==
    \/ \E w \in Workers : WorkerReads(w) \/ WorkerStores(w)
    \/ ProxyWrites
    \/ RotateTruncate
    \/ RotateReplace
    \/ StartProxyHalt
    \/ StartProxyResume
    \/ StopProxy

SpecTail == Init /\ [][TailNext]_vars

\* the store under one writer: the tail worker saves while saves fail and
\* the host process crashes and starts again
SaveNext ==
    \/ \E w \in Workers : WorkerReads(w) \/ WorkerStores(w) \/ WorkerFaults(w)
    \/ ProxyWrites
    \/ Tick
    \/ StartProxyHalt
    \/ StartProxyResume
    \/ Crash
    \/ Boot

SpecSave == Init /\ [][SaveNext]_vars

SyncSteps ==
    \/ SyncFetch
    \/ SyncLoadHistory
    \/ SyncOpenHistory
    \/ SyncWriteHistory
    \/ SyncLoadAggregate
    \/ SyncSaveOpen
    \/ SyncSaveWrite
    \/ SyncSaveRename
    \/ SyncReturn

\* the tail worker and the authoritative syncs on one store
SyncNext ==
    \/ \E w \in Workers : WorkerReads(w) \/ WorkerStores(w)
    \/ ProxyWrites
    \/ StartProxyHalt
    \/ StartProxyResume
    \/ SyncSteps

SpecSync == Init /\ [][SyncNext]_vars

\* the authoritative syncs while requests and saves fail
FaultNext ==
    \/ SyncSteps
    \/ SyncFetchFails
    \/ SyncHistoryFails
    \/ SyncSaveOpenFails
    \/ SyncSaveRenameFails
    \/ StartProxyHalt
    \/ StartProxyResume

SpecFault == Init /\ [][FaultNext]_vars

\* a request an earlier run saved to the ring
SavedRequest ==
    RequestLog([n |-> 0, path |-> TrackedPath, status |-> 200], LineTs(0), 0,
               "unknown", "anthropic")

SavedHistory == [DefaultHistory EXCEPT !.requests = <<SavedRequest>>]

\* the conditions a start finds history.json and aggregate.json in:
\* missing, emptied, partly written or whole
HistoryFiles ==
    { [st |-> "absent", val |-> DefaultHistory],
      EmptyFile(DefaultHistory),
      TornFile(DefaultHistory),
      Full(SavedHistory) }

AggregateFiles ==
    { [st |-> "absent", val |-> DefaultAggregate],
      EmptyFile(DefaultAggregate),
      TornFile(DefaultAggregate),
      Full(MigratedAggregate(SavedHistory)) }

\* the state after a start that found the three files in any condition; a
\* whole history without an aggregate has been migrated by then
InitLoad ==
    /\ \E a \in AggregateFiles, h \in HistoryFiles, c \in ConfigFiles :
         /\ a.st = "absent" => h.st # "full"
         /\ inodes = IF a.st = "absent" THEN EmptyMap ELSE (1 :> a)
         /\ aggPath = IF a.st = "absent" THEN 0 ELSE 1
         /\ histFile = h
         /\ cfg = [file |-> ConfigFileAfterLoad(c),
                   loaded |-> LoadConfigFromPath(c)]
    /\ tmpPath = 0
    /\ logs = (1 :> <<>>)
    /\ logPath = 1
    /\ InitProcess

\* starts and authoritative syncs on files in any condition
LoadNext ==
    \/ SyncSteps
    \/ StartProxyHalt
    \/ StartProxyResume
    \/ Crash
    \/ Boot

SpecLoad == InitLoad /\ [][LoadNext]_vars

\* the tail worker and add_request_to_history on one ring
RingNext ==
    \/ \E w \in Workers : WorkerReads(w) \/ WorkerStores(w)
    \/ ProxyWrites
    \/ StartProxyHalt
    \/ StartProxyResume
    \/ AddLoad
    \/ AddOpen
    \/ AddWrite

SpecRing == Init /\ [][RingNext]_vars

\* the watcher's lifecycle: the proxy is started and stopped and ends by
\* itself while it writes its log
WatchNext ==
    \/ \E w \in Workers : WorkerReads(w) \/ WorkerStores(w)
    \/ ProxyWrites
    \/ StartProxyHalt
    \/ StartProxyResume
    \/ StopProxy
    \/ ProxyTerminated

SpecWatch == Init /\ [][WatchNext]_vars

\* the first start: logs/main.log (proxy.rs, line 691) is not there yet
InitNoLog ==
    /\ inodes = EmptyMap
    /\ aggPath = 0
    /\ tmpPath = 0
    /\ histFile = [st |-> "absent", val |-> DefaultHistory]
    /\ logs = EmptyMap
    /\ logPath = 0
    /\ cfg = [file |-> MissingConfig, loaded |-> DefaultConfig]
    /\ InitProcess

\* starting and stopping the proxy around the creation of its log, which
\* stays without lines
StopNext ==
    \/ \E w \in Workers : WaitForLog(w) \/ Attach(w) \/ Poll(w)
    \/ ProxyCreatesLog
    \/ StartProxyHalt
    \/ StartProxyResume
    \/ StopProxy

SpecStop == InitNoLog /\ [][StopNext]_vars

\* the k-th request of a ring filled by earlier runs, a day ago
FillerRequest(k) ==
    RequestLog([n |-> 0, path |-> TrackedPath, status |-> 200],
               (Today - 1) * MsPerDay + k * 1000, k, "unknown", "anthropic")

FilledHistory(n) ==
    [DefaultHistory EXCEPT !.requests = [k \in 1..n |-> FillerRequest(k)]]

\* what migrate_to_split_storage builds from that ring: its requests are
\* of one day, one model and one provider, and none failed
FilledAggregate(n) ==
    [DefaultAggregate EXCEPT
       !.total_requests = n,
       !.total_success_count = n,
       !.requests_by_day = <<Point(Today - 1, n)>>,
       !.tokens_by_day = <<Point(Today - 1, 0)>>,
       !.model_stats =
           "unknown" :> [DefaultStats EXCEPT !.requests = n,
                                             !.success_count = n],
       !.provider_stats =
           "anthropic" :> [DefaultStats EXCEPT !.requests = n,
                                               !.success_count = n]]

\* a start on a ring that is full, or one request short of it; the
\* aggregate is the one the migration built from that ring
InitTrim ==
    /\ \E n \in {MAX_HISTORY_SIZE - 1, MAX_HISTORY_SIZE} :
         /\ histFile = Full(FilledHistory(n))
         /\ inodes = (1 :> Full(FilledAggregate(n)))
    /\ aggPath = 1
    /\ tmpPath = 0
    /\ logs = (1 :> <<>>)
    /\ logPath = 1
    /\ cfg = [file |-> MissingConfig, loaded |-> DefaultConfig]
    /\ InitProcess

\* the tail worker, add_request_to_history and clear_request_history on a
\* full ring
TrimNext ==
    \/ \E w \in Workers : WorkerReads(w) \/ WorkerStores(w)
    \/ ProxyWrites
    \/ AddLoad
    \/ AddOpen
    \/ AddWrite
    \/ ClearOpen
    \/ ClearWrite
    \/ StartProxyHalt
    \/ StartProxyResume

SpecTrim == InitTrim /\ [][TrimNext]_vars

\* the first hour of the week that ends with the hour before the start
WeekBefore == (Today - 7) * 24

\* a week of hours in the order of their labels, as a merge leaves them
SortedHours(v) ==
    [k \in 1..MAX_HOURLY_POINTS |-> Point(WeekBefore + k - 1, v)]

\* the same week as the tail worker leaves it when, in its first hour, a
\* sync merged an entry whose two-character key was the hour after
\* (usage.rs, lines 188-189 and 832-838, put today's date before such a
\* key whatever day the proxy counted it on), the first request of the
\* hour came after that sync, and no sync ran since: the later label stands
\* before the earlier one
UnsortedHours(v) ==
    <<Point(WeekBefore + 1, v), Point(WeekBefore, v)>>
    \o [k \in 1..(MAX_HOURLY_POINTS - 2) |-> Point(WeekBefore + 1 + k, v)]

\* the aggregate of that week: a request an hour, none with tokens
WeekAggregate(requests_by_hour, tokens_by_hour) ==
    [DefaultAggregate EXCEPT
       !.total_requests = MAX_HOURLY_POINTS,
       !.total_success_count = MAX_HOURLY_POINTS,
       !.requests_by_day = [d \in 1..7 |-> Point(Today - 8 + d, 24)],
       !.tokens_by_day = [d \in 1..7 |-> Point(Today - 8 + d, 0)],
       !.requests_by_hour = requests_by_hour,
       !.tokens_by_hour = tokens_by_hour,
       !.model_stats =
           "unknown" :> [DefaultStats EXCEPT
                           !.requests = MAX_HOURLY_POINTS,
                           !.success_count = MAX_HOURLY_POINTS],
       !.provider_stats =
           "anthropic" :> [DefaultStats EXCEPT
                             !.requests = MAX_HOURLY_POINTS,
                             !.success_count = MAX_HOURLY_POINTS]]

\* a start after a week of requests, the ring cleared
InitHours ==
    /\ \/ inodes = (1 :> Full(WeekAggregate(SortedHours(1), SortedHours(0))))
       \/ inodes = (1 :> Full(WeekAggregate(UnsortedHours(1),
                                            UnsortedHours(0))))
    /\ aggPath = 1
    /\ tmpPath = 0
    /\ histFile = Full(DefaultHistory)
    /\ logs = (1 :> <<>>)
    /\ logPath = 1
    /\ cfg = [file |-> MissingConfig, loaded |-> DefaultConfig]
    /\ InitProcess

\* the tail worker over the hours of a full week
HoursNext ==
    \/ \E w \in Workers : WorkerReads(w) \/ WorkerStores(w)
    \/ ProxyWrites
    \/ Tick
    \/ StartProxyHalt
    \/ StartProxyResume

SpecHours == InitHours /\ [][HoursNext]_vars

\* the tail worker and syncs with a proxy that served two apis
ModelsNext ==
    \/ \E w \in Workers : WorkerReads(w) \/ WorkerStores(w)
    \/ ProxyWrites
    \/ StartProxyHalt
    \/ StartProxyResume
    \/ SyncFetchShared
    \/ SyncLoadHistory
    \/ SyncOpenHistory
    \/ SyncWriteHistory
    \/ SyncLoadAggregate
    \/ SyncSaveOpen
    \/ SyncSaveWrite
    \/ SyncSaveRename
    \/ SyncReturn

SpecModels == Init /\ [][ModelsNext]_vars

\* the tail worker while opening the log file may fail
AttachNext ==
    \/ \E w \in Workers : WorkerReads(w) \/ WorkerStores(w) \/ AttachFails(w)
    \/ ProxyWrites
    \/ StartProxyHalt
    \/ StartProxyResume

SpecAttach == Init /\ [][AttachNext]_vars

\* the tail reader while lines reach the log in one write or in two
PartialNext ==
    \/ \E w \in Workers : WorkerReads(w) \/ WorkerStores(w)
    \/ ProxyWrites
    \/ ProxyWritesHead
    \/ ProxyWritesTail
    \/ StartProxyHalt
    \/ StartProxyResume

SpecPartial == Init /\ [][PartialNext]_vars

(***************************************************************************)
(* Properties.                                                             *)
(***************************************************************************)
\* C1: save_aggregate is atomic.  In every state, the states after a crash
\* and after a failed rename among them, aggregate.json is missing only as
\* long as no save has completed, and otherwise holds the complete document
\* of the last save that completed: never an emptied or a partly written one.
C1_AtomicSave ==
    IF aggPath = 0
    THEN committed = DefaultAggregate
    ELSE inodes[aggPath] = Full(committed)

\* the host process died after the temporary file of a second save was
\* written and before its rename
C1_CrashBeforeRename ==
    /\ proc = "down"
    /\ aggPath # 0
    /\ tmpPath # 0
    /\ inodes[tmpPath].st = "full"
    /\ inodes[tmpPath].val # committed

\* the save of an authoritative sync has completed in this step
SyncCompletes ==
    /\ sy.pc = "rename"
    /\ sy'.pc = "done"
    /\ aggPath' # aggPath

\* every point of a payload's series is on disk with the payload's value
PayloadOnDisk(series, points) ==
    \A i \in 1..Len(points) :
        /\ points[i].label \in Labels(series)
        /\ ValueAt(series, points[i].label) = points[i].value

\* C2: the authoritative merge overwrites.  When a sync has saved, the
\* aggregate on disk has, for every label of the payload's four series, the
\* payload's value.
C2_MergeOverwrites ==
    [][SyncCompletes =>
         /\ PayloadOnDisk(LoadAggregate'.requests_by_day,
                          sy.payload.requests_by_day)
         /\ PayloadOnDisk(LoadAggregate'.tokens_by_day,
                          sy.payload.tokens_by_day)
         /\ PayloadOnDisk(LoadAggregate'.requests_by_hour,
                          NormalizeHours(sy.payload.requests_by_hour, sy.today))
         /\ PayloadOnDisk(LoadAggregate'.tokens_by_hour,
                          NormalizeHours(sy.payload.tokens_by_hour, sy.today))]_vars

\* a save_aggregate of the tail worker has completed in this step
TailSaveCompletes ==
    /\ proc = "up"
    /\ proc' = "up"
    /\ aggPath' # aggPath

\* exactly one bucket of the requests-by-day series on disk has grown, by 1
OneDayBucketGrowsByOne ==
    LET old == LoadAggregate.requests_by_day
        new == LoadAggregate'.requests_by_day
    IN  \E d \in Labels(new) :
            /\ ValueAt(new, d) = ValueAt(old, d) + 1
            /\ \A e \in (Labels(new) \cup Labels(old)) \ {d} :
                    ValueAt(new, e) = ValueAt(old, e)

\* C3: tail-derived increments add.  Every completed save of the tail
\* worker leaves one requests-by-day bucket on disk exactly 1 above what
\* was on disk before (a new bucket at 1), and at every moment loading the
\* file returns the Aggregate of the last save that completed.
C3_TailIncrementsAdd ==
    /\ [](LoadAggregate = committed)
    /\ [][TailSaveCompletes => OneDayBucketGrowsByOne]_vars

\* two events of the same day have been saved: the day's bucket is at 2
C3_TwoEventsSameDay ==
    /\ aggPath # 0
    /\ ValueAt(LoadAggregate.requests_by_day, Today) = 2
    /\ LoadAggregate.total_requests = 2

Scalars ==
    {"total_requests", "total_success_count", "total_failure_count",
     "total_tokens_in", "total_tokens_out", "total_tokens_cached",
     "total_cost_usd"}

\* C4: the cumulative scalars never decrease.  While the host process
\* lives, no step lowers a cumulative scalar of the aggregate that
\* load_aggregate returns.
C4_ScalarsMonotone ==
    [][(proc = "up" /\ proc' = "up") =>
         \A f \in Scalars : LoadAggregate'[f] >= LoadAggregate[f]]_vars

\* the entries of the persisted ring with a timestamp and a path
RingEntries(timestamp, path) ==
    {i \in 1..Len(LoadRequestHistory.requests) :
        /\ LoadRequestHistory.requests[i].timestamp = timestamp
        /\ LoadRequestHistory.requests[i].path = path}

\* C5: the persisted ring holds no two entries with the same timestamp and
\* path.
C5_RingUnique ==
    \A i \in 1..Len(LoadRequestHistory.requests) :
        Cardinality(RingEntries(LoadRequestHistory.requests[i].timestamp,
                                LoadRequestHistory.requests[i].path)) = 1

\* the lines a worker was handed that the parser makes an event of
EventLines ==
    {l \in UNION {Range(logs[f]) : f \in DOMAIN logs} :
        /\ delivered[l.n] >= 1
        /\ ParseGinLogLine(l, 0, EmptyCache, 0).kind = "event"}

\* the timestamps and paths of the events the parser has made
ObservedKeys == {<<l.ts, l.path>> : l \in EventLines}

\* no worker is between reading a line and the end of its saves, and
\* add_request_to_history is not running
Quiescent ==
    /\ \A w \in Workers : wk[w].ev = NoEvent
    /\ ad.pc = "idle"

\* C6: every event with a new timestamp and path is appended once to the
\* ring and folded once into the aggregate.  When the worker and
\* add_request_to_history are at rest, the ring holds exactly one entry for
\* every timestamp and path the parser has made an event of, and total
\* requests is their number.
C6_AppendedAndFoldedOnce ==
    Quiescent =>
        /\ LoadAggregate.total_requests = Cardinality(ObservedKeys)
        /\ \A k \in ObservedKeys : Cardinality(RingEntries(k[1], k[2])) = 1

\* C7: lines that are in the log when a worker attaches never produce
\* events.  No worker has ever been handed a line that was in the file when
\* it attached, and no worker holds an event made from such a line.
C7_NoReplayAtAttach ==
    /\ replayed = {}
    /\ \A w \in Workers :
          wk[w].ev.kind = "event" => wk[w].ev.src \notin wk[w].pre

\* a worker attached to a file holding a line an earlier worker had read,
\* and has since read a line written after it attached
C7_Reattached ==
    \E w \in Workers :
        /\ wk[w].pc # "none"
        /\ \E n \in wk[w].pre : delivered[n] = 1
        /\ \E i \in 1..Min(wk[w].off, Len(logs[wk[w].ino])) :
              logs[wk[w].ino][i].n \notin wk[w].pre

\* the worker holds the log for read to its end: it sleeps before its next
\* poll and its last position is the size of the file at the path
CaughtUp(w) ==
    /\ wk[w].pc = "poll"
    /\ logPath # 0
    /\ wk[w].last_pos = Len(logs[logPath])

\* C8: rotation survival.  No line is handed to the parser twice, and when
\* a worker holds the log for read to its end, every line of the file at
\* the path that was written after the worker attached has been handed to
\* the parser exactly once.
C8_RotationSurvival ==
    /\ \A n \in DOMAIN delivered : delivered[n] <= 1
    /\ \A w \in Workers :
          CaughtUp(w) =>
              \A i \in 1..Len(logs[logPath]) :
                  logs[logPath][i].n \notin wk[w].pre
                      => delivered[logs[logPath][i].n] = 1

\* the entries of the persisted ring made from a line
EntriesOfLine(n) ==
    {i \in 1..Len(LoadRequestHistory.requests) :
        LoadRequestHistory.requests[i].src = n}

\* C9: a restart of the watcher duplicates no line.  Total requests is at
\* most the number of lines a worker was handed, and no line has two
\* entries in the ring.
C9_NoDuplicateOnRestart ==
    /\ LoadAggregate.total_requests
         <= Cardinality({n \in DOMAIN delivered : delivered[n] >= 1})
    /\ \A n \in DOMAIN delivered : Cardinality(EntriesOfLine(n)) <= 1

\* C10: at most one tail worker is in its poll loop.
C10_OneWorkerInLoop ==
    Cardinality({w \in Workers : InPollLoop(w)}) <= 1

\* C11: concurrent saves never corrupt the canonical file.  Whatever the
\* tail worker and an authoritative sync do to the temporary file, a reader
\* of aggregate.json finds a complete document: the file is never an
\* emptied one and never a mix of two writes.
C11_NeverCorrupt ==
    aggPath # 0 => inodes[aggPath].st = "full"

\* a sync's request has failed in this step
FetchHasFailed ==
    /\ sy.pc = "idle"
    /\ sy'.pc = "done"
    /\ sy'.fault \in FetchFailures

\* C12: a failed sync changes nothing and says so.  When the request of a
\* sync fails, answers with a status that is not a success or answers with
\* a body that does not parse, no file of the store is changed and the call
\* returns an error to its caller.
C12_FailedSyncReported ==
    [][FetchHasFailed =>
         /\ UNCHANGED <<inodes, aggPath, histFile>>
         /\ sy'.ret = "Err"]_vars

\* the save_aggregate of a sync has failed in this step
SyncSaveHasFailed ==
    /\ sy.pc \in {"opentmp", "rename"}
    /\ sy'.pc = "done"
    /\ sy'.fault = "save"

\* C13: a failed save is never reported as success.  When the
\* save_aggregate of a sync fails, the aggregate on disk stays what it was
\* and the sync does not return Ok to its caller.
C13_FailedSaveSurfaced ==
    [][SyncSaveHasFailed =>
         /\ LoadAggregate' = LoadAggregate
         /\ sy'.ret # "Ok"]_vars

\* C14: the history is saved atomically.  When the host process has died,
\* in the middle of save_request_history or elsewhere, history.json is
\* missing or holds a complete document: it is never an emptied file.
C14_HistoryNeverTruncated ==
    proc = "down" => histFile.st \in {"absent", "full"}

\* C15: loading never fails.  Whatever condition the files are in,
\* load_aggregate and load_request_history return the zeroed default for a
\* file that is missing or does not parse, load_config returns the default
\* configuration for one that is missing, unreadable or invalid, a stopped
\* host process can always start, and a running one has a configuration.
C15_LoadsNeverFail ==
    /\ (aggPath = 0 \/ inodes[aggPath].st # "full")
          => LoadAggregate = DefaultAggregate
    /\ histFile.st # "full" => LoadRequestHistory = DefaultHistory
    /\ cfg.file.st # "full" => LoadConfigFromPath(cfg.file) = DefaultConfig
    /\ proc = "up" => cfg.loaded # NoConfig
    /\ proc = "up" => cfg.loaded = LoadConfigFromPath(cfg.file)
    /\ proc = "down" => ENABLED Boot

\* the host process runs on an invalid config.json with the defaults, and
\* a sync has loaded a partly written history.json, next to a partly
\* written aggregate.json, as an empty history
C15_StartedOnDamagedFiles ==
    /\ proc = "up"
    /\ cfg.file.st = "invalid"
    /\ cfg.loaded = DefaultConfig
    /\ aggPath # 0
    /\ inodes[aggPath].st = "torn"
    /\ histFile.st = "torn"
    /\ sy.pc = "openhist"
    /\ sy.hist.requests = <<>>

\* C16: a partial trailing line is retained.  The parser is never handed a
\* part of a line, and when a worker holds the log for read to its end,
\* every line that was written in two parts after the worker attached has
\* been handed to the parser exactly once, as one whole line.
C16_PartialLineRetained ==
    /\ fragments = {}
    /\ \A w \in Workers :
          CaughtUp(w) =>
              \A i \in 1..Len(logs[logPath]) :
                  (logs[logPath][i].part = "tail"
                   /\ logs[logPath][i].n \notin wk[w].pre)
                      => delivered[logs[logPath][i].n] = 1

\* a worker's sleep of 500 ms is over: it waited for the log file (line
\* 270) or slept between two polls (line 302), and now takes its step
SleepEnds(w) == wk[w].pc \in {"wait", "poll"} /\ wk'[w] # wk[w]

\* C17: the tail reader stops within one poll interval of the running flag
\* becoming false.  A worker whose sleep ends while the flag is false, and
\* stays false, does not go to sleep again.
C17_StopsWithinOnePoll ==
    [][\A w \in Workers :
          (~running /\ ~running' /\ SleepEnds(w))
              => wk'[w].pc \notin {"wait", "poll"}]_vars

\* kept holds the last MAX_HISTORY_SIZE entries of all, or all of them when
\* they are fewer, in the order they have in all
IsMostRecentOf(kept, all) ==
    /\ Len(kept) = Min(Len(all), MAX_HISTORY_SIZE)
    /\ \A i \in 1..Len(kept) : kept[i] = all[Len(all) - Len(kept) + i]

\* the tail worker appends its event to the history it loaded
WorkerAppends(w) ==
    wk[w].pc = "loadagg" /\ wk'[w].pc = "openhist"

\* add_request_to_history appends the request to the history it loaded
AdderAppends(req) ==
    /\ ad.pc = "idle" /\ ad'.pc = "openhist"
    /\ ~HasId(LoadRequestHistory, req)
    /\ Len(ad'.hist.requests) > 0
    /\ ad'.hist.requests[Len(ad'.hist.requests)] = req

\* C18: history.json never holds more than MAX_HISTORY_SIZE events, and an
\* append keeps the MAX_HISTORY_SIZE most recent events of the loaded ring
\* with the new event at its end, in their order; what is written to the
\* file is the list so kept.
C18_RingKeepsMostRecent ==
    /\ [](Len(histFile.val.requests) <= MAX_HISTORY_SIZE)
    /\ [][\A w \in Workers :
            WorkerAppends(w) =>
                IsMostRecentOf(wk'[w].hist.requests,
                               Append(wk[w].hist.requests, wk[w].ev))]_vars
    /\ [][\A req \in emitted :
            AdderAppends(req) =>
                IsMostRecentOf(ad'.hist.requests,
                               Append(LoadRequestHistory.requests, req))]_vars
    /\ [][\A w \in Workers :
            (wk[w].pc = "writehist" /\ wk'[w].pc # "writehist")
                => histFile'.val.requests = wk[w].hist.requests]_vars
    /\ [][(ad.pc = "writehist" /\ ad'.pc # "writehist")
            => histFile'.val.requests = ad.hist.requests]_vars

\* a full ring took a new event at its end and lost its oldest one
C18_OldestDropped ==
    /\ histFile.st = "full"
    /\ Len(histFile.val.requests) = MAX_HISTORY_SIZE
    /\ histFile.val.requests[MAX_HISTORY_SIZE].src >= 1
    /\ histFile.val.requests[1] # FillerRequest(1)

\* C20: operations on the history leave the Aggregate file alone.  A step
\* that writes, trims or clears history.json, and every step of
\* clear_request_history, changes neither aggregate.json nor what
\* load_aggregate returns.
C20_HistoryOpsLeaveAggregate ==
    [][(histFile' # histFile \/ cl' # cl)
          => /\ UNCHANGED <<inodes, aggPath>>
             /\ LoadAggregate' = LoadAggregate]_vars

\* the ring was cleared and the aggregate still counts its requests
C20_ClearedWithAggregateKept ==
    /\ cl.pc = "idle"
    /\ histFile = Full(DefaultHistory)
    /\ LoadAggregate.total_requests >= MAX_HISTORY_SIZE - 1

\* kept are the MAX_HOURLY_POINTS latest labels of all, or all of them when
\* they are fewer
AreMostRecentLabels(kept, all) ==
    /\ kept \subseteq all
    /\ Cardinality(kept) = Min(Cardinality(all), MAX_HOURLY_POINTS)
    /\ \A a \in all \ kept : \A b \in kept : a < b

\* the tail worker folds its event into the aggregate it loads
WorkerFolds(w) ==
    wk[w].pc = "loadagg" /\ wk'[w].pc = "openhist"

\* C19: the hourly series keep the most recent week.  The two hourly
\* series of aggregate.json never hold more than MAX_HOURLY_POINTS points,
\* and of the labels of the loaded series and the label of the current
\* hour a tail update keeps the MAX_HOURLY_POINTS most recent ones.
C19_HourlyKeepsMostRecent ==
    /\ [](/\ Len(LoadAggregate.requests_by_hour) <= MAX_HOURLY_POINTS
          /\ Len(LoadAggregate.tokens_by_hour) <= MAX_HOURLY_POINTS)
    /\ [][\A w \in Workers :
            WorkerFolds(w) =>
                /\ AreMostRecentLabels(
                       Labels(wk'[w].agg.requests_by_hour),
                       Labels(LoadAggregate.requests_by_hour)
                           \cup {HourLabel(clock.day, clock.hour)})
                /\ AreMostRecentLabels(
                       Labels(wk'[w].agg.tokens_by_hour),
                       Labels(LoadAggregate.tokens_by_hour)
                           \cup {HourLabel(clock.day, clock.hour)})]_vars

\* the proxy's totals of a model in a payload: the sums over the apis that
\* served it
PayloadModelTotals(apis, m) ==
    [requests |-> SumRequests(EntriesOf(apis, m), "total_requests"),
     success_count |-> SumRequests(EntriesOf(apis, m), "total_requests"),
     tokens |-> SumRequests(EntriesOf(apis, m), "total_tokens"),
     input_tokens |-> TotalOf(EntriesOf(apis, m), "input_tokens"),
     output_tokens |-> TotalOf(EntriesOf(apis, m), "output_tokens"),
     cached_tokens |-> TotalOf(EntriesOf(apis, m), "cached_tokens")]

\* a sync merges its payload into the aggregate it loads
SyncMerges == sy.pc = "loadagg" /\ sy'.pc = "opentmp"

\* C21: per-model stats are replaced by a sync and incremented by the
\* tail.  The aggregate a sync builds holds, for every model of the
\* payload, the proxy's totals of that model; the aggregate a tail update
\* builds counts one request more for the model and for the provider of
\* its event and leaves the other models and providers as loaded.
C21_ModelStatsReplaced ==
    /\ [][SyncMerges =>
            \A m \in ModelsOf(sy.payload.apis) :
                sy'.agg.model_stats[m]
                    = PayloadModelTotals(sy.payload.apis, m)]_vars
    /\ [][\A w \in Workers :
            WorkerFolds(w) =>
                LET old == LoadAggregate
                    new == wk'[w].agg
                    ev == wk[w].ev
                IN  /\ new.model_stats[ev.model].requests
                          = StatsOf(old.model_stats, ev.model).requests + 1
                    /\ new.provider_stats[ev.provider].requests
                          = StatsOf(old.provider_stats, ev.provider).requests + 1
                    /\ \A m \in DOMAIN old.model_stats \ {ev.model} :
                          new.model_stats[m] = old.model_stats[m]
                    /\ \A q \in DOMAIN old.provider_stats \ {ev.provider} :
                          new.provider_stats[q] = old.provider_stats[q]]_vars

\* no worker is between reading a line and the end of its saves, and no
\* sync is between its fetch and its return
SyncAtRest ==
    /\ \A w \in Workers : wk[w].ev = NoEvent
    /\ sy.pc \in {"idle", "done"}

\* C22: a sync leaves the events of the ring alone.  When the worker and
\* the sync are at rest, the ring holds an entry for every timestamp and
\* path the parser has made an event of, with the fields the parser gave
\* it: no entry the tail worker appended has gone or changed.
C22_SyncKeepsRing ==
    SyncAtRest =>
        \A l \in EventLines :
            \E i \in 1..Len(LoadRequestHistory.requests) :
                LET r == LoadRequestHistory.requests[i]
                IN  /\ r.timestamp = l.ts
                    /\ r.path = l.path
                    /\ r.status = l.status
                    /\ r.tokens_in = None
                    /\ r.tokens_out = None
                    /\ r.tokens_cached = None

\* the token totals and the estimated cost of an aggregate
TokenTotals(agg) ==
    <<agg.total_tokens_in, agg.total_tokens_out, agg.total_tokens_cached,
      agg.total_cost_usd>>

\* every token bucket of old has its value in new
BucketsKept(old, new) ==
    /\ \A l \in Labels(old.tokens_by_day) :
          ValueAt(new.tokens_by_day, l) = ValueAt(old.tokens_by_day, l)
    /\ \A l \in Labels(old.tokens_by_hour) :
          ValueAt(new.tokens_by_hour, l) = ValueAt(old.tokens_by_hour, l)

\* C23: the tail path knows no tokens.  Every event the parser makes has
\* its three token fields absent, and a step that changes the token
\* totals, the estimated cost or the value of a token bucket of
\* aggregate.json is a step of an authoritative sync.
C23_TailLeavesTokens ==
    /\ [](\A ev \in emitted :
            /\ ev.tokens_in = None
            /\ ev.tokens_out = None
            /\ ev.tokens_cached = None)
    /\ [][(\/ TokenTotals(LoadAggregate') # TokenTotals(LoadAggregate)
           \/ ~BucketsKept(LoadAggregate, LoadAggregate'))
              => sy' # sy]_vars

\* the entries of the ring stand in the order of the lines they were made of
RingInLineOrder(requests) ==
    \A i, j \in 1..Len(requests) :
        i < j => requests[i].src < requests[j].src

\* C24: events are appended in the order their lines are read.  Of two
\* entries of the ring the one made of the earlier line stands first.
C24_AppendedInLineOrder ==
    RingInLineOrder(LoadRequestHistory.requests)

\* the events this run has emitted and the events earlier runs stored
KnownEvents == emitted \cup Range(LoadRequestHistory.requests)

\* C25: event ids are never reused.  Two events with the same id, emitted
\* in this run or stored by an earlier one, are the event of one line.
C25_IdsNeverReused ==
    \A a, b \in KnownEvents : a.id = b.id => a.src = b.src

\* a worker that waits for the log file takes a step while there is none
WaitsInVain(w) ==
    wk[w].pc = "wait" /\ wk'[w] # wk[w] /\ logPath = 0

\* C26: the wait for a log file that never appears is bounded and silent.
\* No worker sleeps more than MaxAttempts times; a worker that finds the
\* file missing sleeps once more while it has sleeps left and returns when
\* it has none; and such a step emits no event and changes no file.
C26_GivesUpSilently ==
    /\ [](\A w \in Workers : wk[w].attempts <= MaxAttempts)
    /\ [][\A w \in Workers :
            WaitsInVain(w) =>
                /\ wk'[w] = IF wk[w].attempts < MaxAttempts
                            THEN [wk[w] EXCEPT !.attempts = @ + 1]
                            ELSE ExitedWorker
                /\ UNCHANGED <<storeVars, logVars, emitted>>]_vars

\* the proxy runs without a log file and its worker has given up: nothing
\* was emitted and no file was made
C26_GaveUp ==
    /\ proxyUp /\ running /\ starter = "idle"
    /\ logPath = 0
    /\ \A w \in Workers : wk[w].pc = "none"
    /\ emitted = {}
    /\ inodes = EmptyMap /\ histFile.st = "absent"

\* C27: a failure to open the log file does not end the tail worker.  A
\* worker that is opening the log file while the running flag is true, and
\* stays true, is still alive after its step.
C27_OpenFailureRetried ==
    [][\A w \in Workers :
          (running /\ running' /\ wk[w].pc = "open" /\ wk'[w] # wk[w])
              => wk'[w].pc # "none"]_vars

(***************************************************************************)
(* The parser on lines of every shape: one start of the proxy, the worker  *)
(* it spawns and the lines the proxy writes.                               *)
(***************************************************************************)
ParseNext ==
    \/ \E w \in Workers : WorkerReads(w) \/ WorkerStores(w)
    \/ ProxyWritesAny
    \/ StartProxyHalt
    \/ StartProxyResume

SpecParse == Init /\ [][ParseNext]_vars

\* worker w reads a whole line in this step
ReadsLine(w) ==
    /\ wk[w].pc = "read"
    /\ wk'[w].off > wk[w].off
    /\ ReadLineAt(logs[wk[w].ino], wk[w].off).line.part = "whole"

LineRead(w) == ReadLineAt(logs[wk[w].ino], wk[w].off).line

\* cache differs from old at most in the entry of the request id of line,
\* which holds the hinted model
RecordsHint(old, cache, line) ==
    /\ cache.others = old.others
    /\ DOMAIN cache.models = (DOMAIN old.models) \cup {line.rid}
    /\ cache.models[line.rid] = line.hinted
    /\ \A k \in DOMAIN old.models :
          k # line.rid => cache.models[k] = old.models[k]

IsCounted(path) == IsTrackable(path) /\ ~IsInternalRoute(path)

\* C29: every event the parser produces, every entry of the ring and every
\* event a worker folds into the aggregate comes from a line of an
\* allowlisted inference route that matches no denylisted route
C29_OnlyInferenceRoutes ==
    /\ [](\A ev \in emitted : IsCounted(ev.path))
    /\ [](\A i \in DOMAIN LoadRequestHistory.requests :
            IsCounted(LoadRequestHistory.requests[i].path))
    /\ [][\A w \in Workers : WorkerFolds(w) => IsCounted(wk[w].ev.path)]_vars
    /\ [][LoadAggregate.total_requests # LoadAggregate'.total_requests =>
            \E w \in Workers :
                wk[w].ev.kind = "event" /\ IsCounted(wk[w].ev.path)]_vars

\* a line of a route that is both denylisted and allowlisted has been read
\* and has left nothing, while the line of an inference route next to it
\* is in the ring and counted
C29_InternalRouteSkipped ==
    /\ \E i \in DOMAIN logs[logPath] :
          /\ logs[logPath][i].path \in {InternalMessagesPath, TelemetryPath}
          /\ logs[logPath][i].fmt \in {"new", "gin"}
          /\ delivered[logs[logPath][i].n] >= 1
    /\ Len(LoadRequestHistory.requests) = 1
    /\ LoadAggregate.total_requests = 1
    /\ \A w \in Workers : wk[w].pc \in {"none", "poll"}
    /\ \A i \in DOMAIN logs[logPath] : delivered[logs[logPath][i].n] >= 1
    /\ Len(logs[logPath]) = 2

(***************************************************************************)
(* The parser with a cache near its ceiling.  The worker of a running      *)
(* proxy has read hints of MAX_CACHE_SIZE - 1 or MAX_CACHE_SIZE other      *)
(* requests; the log was then rotated by truncation and the worker has     *)
(* reopened it (lines 309-325), so that it polls an empty file.            *)
(***************************************************************************)
InitCache ==
    /\ InitFiles
    /\ proc = "up"
    /\ running = TRUE
    /\ proxyUp = TRUE
    /\ counter = 0
    /\ starter = "idle"
    /\ \E known \in {MAX_CACHE_SIZE - 1, MAX_CACHE_SIZE} :
         wk = [w \in Workers |->
                 IF w = 1
                 THEN [NoWorker EXCEPT !.pc = "poll", !.ino = 1,
                                       !.cache.others = known]
                 ELSE NoWorker]
    /\ clock = [day |-> Today, hour |-> 0]
    /\ emitted = {}
    /\ used = [lines |-> 0, rotations |-> MaxRotations, faults |-> 0,
               ticks |-> 0, syncs |-> 0]
    /\ sy = NoSync
    /\ ad = NoAdd
    /\ cl = NoClear
    /\ InitTools
    /\ delivered = EmptyMap
    /\ replayed = {}
    /\ fragments = {}
    /\ committed = DefaultAggregate

CacheNext ==
    \/ \E w \in Workers : Poll(w) \/ ReadLine(w) \/ WorkerStores(w)
    \/ ProxyWritesAny

SpecCache == InitCache /\ [][CacheNext]_vars

\* the line before the one worker w is about to read is a hint this worker
\* has read, for the request id of the line it is about to read
FollowsItsHint(w) ==
    /\ wk[w].off >= 1
    /\ LET hint == logs[wk[w].ino][wk[w].off]
       IN  /\ HintMatches(hint)
           /\ hint.n \notin wk[w].pre
           /\ hint.rid = LineRead(w).rid

\* C30: a completion line in the new format that follows the hint for its
\* request id yields an event that carries the hinted model
C30_HintedModelCarried ==
    [][\A w \in Workers :
          (/\ ReadsLine(w)
           /\ LineRead(w).fmt = "new"
           /\ LineRead(w).rid # NoRequestId
           /\ FollowsItsHint(w)
           /\ wk'[w].pc = "loadhist") =>
              wk'[w].ev.model = logs[wk[w].ino][wk[w].off].hinted]_vars

\* C31: the provider of an event is the vendor of its model when the model
\* names one; otherwise the vendor its path suggests; and "unknown" only
\* when neither the model nor the path resolves
C31_ProviderFromModelFirst ==
    \A ev \in emitted :
        /\ DetectProviderFromModel(ev.model) # "unknown" =>
              ev.provider = DetectProviderFromModel(ev.model)
        /\ (/\ DetectProviderFromModel(ev.model) = "unknown"
            /\ DetectProviderFromPath(ev.path) # "none") =>
              ev.provider = DetectProviderFromPath(ev.path)
        /\ ev.provider = "unknown" <=>
              /\ DetectProviderFromModel(ev.model) = "unknown"
              /\ DetectProviderFromPath(ev.path) = "none"

\* an event whose model, hinted one line before it, names one vendor and
\* whose path suggests another: it carries the vendor of the model
C31_CrossVendorEvent ==
    \E ev \in emitted :
        /\ ev.model = "claude-x"
        /\ ev.path = GeminiPath
        /\ DetectProviderFromPath(ev.path) = "google"
        /\ ev.provider = "anthropic"

(***************************************************************************)
(* parse_duration (log_watcher.rs, lines 19-29).  A token is the sequence  *)
(* of its characters.                                                      *)
(***************************************************************************)
Digits == <<"0", "1", "2", "3", "4", "5", "6", "7", "8", "9">>

IsDigit(c) == \E i \in 1..10 : Digits[i] = c

DigitValue(c) == (CHOOSE i \in 1..10 : Digits[i] = c) - 1

\* str::ends_with
EndsWith(text, suffix) ==
    /\ Len(text) >= Len(suffix)
    /\ SubSeq(text, Len(text) - Len(suffix) + 1, Len(text)) = suffix

\* str::trim_end_matches: the suffix is removed as often as it matches
RECURSIVE TrimEndMatches(_, _)
TrimEndMatches(text, suffix) ==
    IF EndsWith(text, suffix)
    THEN TrimEndMatches(SubSeq(text, 1, Len(text) - Len(suffix)), suffix)
    ELSE text

\* the number a sequence of digits writes
RECURSIVE DecimalValue(_)
DecimalValue(digits) ==
    IF digits = <<>> THEN 0
    ELSE 10 * DecimalValue(SubSeq(digits, 1, Len(digits) - 1))
         + DigitValue(digits[Len(digits)])

AllDigits(text) == \A i \in 1..Len(text) : IsDigit(text[i])

\* <u64 as FromStr>::from_str(text).unwrap_or(0), on texts too short to
\* overflow: digits only, and at least one
ParseU64Or0(text) ==
    IF text # <<>> /\ AllDigits(text) THEN DecimalValue(text) ELSE 0

\* where the decimal point of a text is, 0 when it has none
PointAt(text) ==
    IF \E i \in 1..Len(text) : text[i] = "."
    THEN CHOOSE i \in 1..Len(text) : text[i] = "."
    ELSE 0

WholePart(text) ==
    IF PointAt(text) = 0 THEN text ELSE SubSeq(text, 1, PointAt(text) - 1)

FractionPart(text) ==
    IF PointAt(text) = 0 THEN <<>>
    ELSE SubSeq(text, PointAt(text) + 1, Len(text))

\* the text writes a decimal number f64::from_str accepts: digits, with at
\* most one point and a digit on one side of it at least; of such texts
\* this model keeps those with at most three decimals
IsDecimal(text) ==
    /\ AllDigits(WholePart(text))
    /\ AllDigits(FractionPart(text))
    /\ Len(WholePart(text)) + Len(FractionPart(text)) >= 1
    /\ Len(FractionPart(text)) <= 3

RECURSIVE TenTo(_)
TenTo(n) == IF n = 0 THEN 1 ELSE 10 * TenTo(n - 1)

\* the thousandths a decimal text of at most three decimals writes
Thousandths(text) ==
    1000 * DecimalValue(WholePart(text))
    + DecimalValue(FractionPart(text))
      * TenTo(3 - Len(FractionPart(text)))

RECURSIVE Log2(_)
Log2(n) == IF n <= 1 THEN 0 ELSE 1 + Log2(n \div 2)

RECURSIVE TwoTo(_)
TwoTo(n) == IF n = 0 THEN 1 ELSE 2 * TwoTo(n - 1)

\* 2^k modulo 1000
RECURSIVE TwoToMod1000(_)
TwoToMod1000(k) == IF k = 0 THEN 1 ELSE (2 * TwoToMod1000(k - 1)) % 1000

\* ((n / 1000) as f64 * 1000.0) as u64 in IEEE 754 binary64, round to
\* nearest: the f64 nearest to n / 1000 has a 53-bit significand q with
\* n * 2^k = 1000 * q + rem; when it was rounded down, its product with
\* 1000 lies rem * 2^-k below n, and the product rounds to the f64 below n
\* when that is more than half the distance between n and the f64 below
\* it; the cast to u64 then drops the fraction
F64SecondsToMs(n) ==
    IF n = 0 THEN 0
    ELSE LET j == Log2(n)
             high == n * 512 >= 1000 * TwoTo(j)
             k == (IF high THEN 61 ELSE 62) - j
             rem == ((n % 1000) * TwoToMod1000(k)) % 1000
             below == IF high \/ n = TwoTo(j) THEN 512 ELSE 1024
         IN  IF rem < 500 /\ 2 * rem > below THEN n - 1 ELSE n

\* f64::from_str(text).unwrap_or(0.0), times 1000.0, as u64
ParseSecondsToMs(text) ==
    IF IsDecimal(text) THEN F64SecondsToMs(Thousandths(text)) ELSE 0

ParseDuration(duration_str) ==
    IF EndsWith(duration_str, <<"m", "s">>)
    THEN ParseU64Or0(TrimEndMatches(duration_str, <<"m", "s">>))
    ELSE IF EndsWith(duration_str, <<"s">>)
         THEN ParseSecondsToMs(TrimEndMatches(duration_str, <<"s">>))
         ELSE 0

\* the number texts and the suffixes of the tokens
WholeTexts == {<<>>, <<"0">>, <<"1">>, <<"6">>, <<"6", "5">>}

FractionTexts ==
    {<<>>, <<".">>, <<".", "5">>, <<".", "2", "0", "0">>,
     <<".", "6", "5", "6">>, <<".", "0", "0", "1">>}

Suffixes ==
    {<<>>, <<"s">>, <<"m", "s">>, <<"m">>, <<"h">>, <<"u", "s">>,
     <<"m", "3", "0", "s">>}

DurationTokens ==
    {whole \o fraction \o suffix :
        whole \in WholeTexts, fraction \in FractionTexts,
        suffix \in Suffixes}

\* parse_gin_log_line, lines 150 and 219: the duration token of a line
ParseDurationCall ==
    /\ dur.pc = "idle"
    /\ \E token \in DurationTokens :
         dur' = [pc |-> "done", token |-> token, ms |-> ParseDuration(token)]
    /\ UNCHANGED <<storeVars, logVars, lifeVars, wk, clock, emitted, cmdVars,
                   used, ghostVars, cfg, cl, yaml, rq>>

ParseDurationReturn ==
    /\ dur.pc = "done"
    /\ dur' = NoDuration
    /\ UNCHANGED <<storeVars, logVars, lifeVars, wk, clock, emitted, cmdVars,
                   used, ghostVars, cfg, cl, yaml, rq>>

DurationNext == ParseDurationCall \/ ParseDurationReturn

SpecDuration == Init /\ [][DurationNext]_vars

\* the number text of a token that ends in the suffix
NumberText(token, suffix) == SubSeq(token, 1, Len(token) - Len(suffix))

\* C32: a token that writes a decimal number followed by ms yields the
\* whole milliseconds of that number; one that writes a decimal number
\* followed by s yields that number of seconds in milliseconds, the
\* fraction kept; a token that ends neither in ms nor in s yields 0
C32_DurationInMilliseconds ==
    dur.pc = "done" =>
        /\ (/\ EndsWith(dur.token, <<"m", "s">>)
            /\ IsDecimal(NumberText(dur.token, <<"m", "s">>))) =>
              dur.ms = Thousandths(NumberText(dur.token, <<"m", "s">>)) \div 1000
        /\ (/\ EndsWith(dur.token, <<"s">>)
            /\ IsDecimal(NumberText(dur.token, <<"s">>))) =>
              dur.ms = Thousandths(NumberText(dur.token, <<"s">>))
        /\ ~EndsWith(dur.token, <<"s">>) => dur.ms = 0

\* C33: the cache of a worker never holds more than MAX_CACHE_SIZE
\* entries, and the step that would push it past the ceiling leaves it
\* CacheEvicted entries below it
C33_CacheBounded ==
    /\ [](\A w \in Workers : CacheSize(wk[w].cache) <= MAX_CACHE_SIZE)
    /\ [][\A w \in Workers :
            (/\ ReadsLine(w)
             /\ HintMatches(LineRead(w))
             /\ CacheSize(wk[w].cache) = MAX_CACHE_SIZE
             /\ LineRead(w).rid \notin DOMAIN wk[w].cache.models) =>
                CacheSize(wk'[w].cache) = MAX_CACHE_SIZE + 1 - CacheEvicted]_vars

\* a worker whose cache was one entry below the ceiling has read the hints
\* of two requests: the second insertion has evicted CacheEvicted entries
C33_EvictedAtCeiling ==
    \E w \in Workers :
        /\ wk[w].off = 2
        /\ \A i \in 1..2 : HintMatches(logs[wk[w].ino][i])
        /\ logs[wk[w].ino][1].rid # logs[wk[w].ino][2].rid
        /\ CacheSize(wk[w].cache) = MAX_CACHE_SIZE + 1 - CacheEvicted

\* C34: a hint a worker reads is in its cache afterwards, and so are the
\* hints it had read since the log was reopened, which are the most
\* recently inserted entries of its cache: an eviction removes older ones
C34_NewestHintsKept ==
    [][\A w \in Workers :
          (ReadsLine(w) /\ HintMatches(LineRead(w))) =>
              /\ LineRead(w).rid \in DOMAIN wk'[w].cache.models
              /\ wk'[w].cache.models[LineRead(w).rid] = LineRead(w).hinted
              /\ DOMAIN wk[w].cache.models \subseteq
                    DOMAIN wk'[w].cache.models]_vars

(***************************************************************************)
(* proxy-config.yaml and set_routing_strategy (commands/config.rs).  The   *)
(* file is the sequence of its lines; a line is its indentation, the key   *)
(* before its colon and the value after it.  A blank line has the key "".  *)
(***************************************************************************)
YamlLine(indent, key, value) ==
    [indent |-> indent, key |-> key, value |-> value]

BlankLine == YamlLine(0, "", "")

StrategyLine(strategy) == YamlLine(2, "strategy", strategy)

\* lines 113-115: the first line that starts with routing: after its
\* indentation; 0 when there is none
RoutingIdx(lines) ==
    IF \E i \in 1..Len(lines) : lines[i].key = "routing"
    THEN CHOOSE i \in 1..Len(lines) :
             /\ lines[i].key = "routing"
             /\ \A j \in 1..(i - 1) : lines[j].key # "routing"
    ELSE 0

\* lines 119-133: the line the loop stops at with a strategy: key, 0 when
\* it leaves the block or the file first
RECURSIVE StrategyIdx(_, _)
StrategyIdx(lines, idx) ==
    IF idx > Len(lines) THEN 0
    ELSE IF lines[idx].indent < 2 \/ lines[idx].key = "" THEN 0
    ELSE IF lines[idx].key = "strategy" THEN idx
    ELSE StrategyIdx(lines, idx + 1)

\* Vec::insert
InsertAt(lines, idx, line) ==
    SubSeq(lines, 1, idx - 1) \o <<line>> \o SubSeq(lines, idx, Len(lines))

\* str::trim_end, lines 140: the blank lines at the end are dropped
RECURSIVE TrimEnd(_)
TrimEnd(lines) ==
    IF lines # <<>> /\ lines[Len(lines)].key = ""
    THEN TrimEnd(SubSeq(lines, 1, Len(lines) - 1))
    ELSE lines

SetRoutingStrategy(existing_yaml, strategy) ==
    LET routing_idx == RoutingIdx(existing_yaml)
        found == StrategyIdx(existing_yaml, routing_idx + 1)
    IN  IF routing_idx # 0
        THEN IF found # 0
             THEN [existing_yaml EXCEPT ![found] = StrategyLine(strategy)]
             ELSE InsertAt(existing_yaml, routing_idx + 1,
                           StrategyLine(strategy))
        ELSE TrimEnd(existing_yaml)
             \o <<YamlLine(0, "routing", ""), StrategyLine(strategy)>>

DefaultYaml == <<YamlLine(0, "routing", ""), StrategyLine("round-robin")>>

MaxYamlLines == 4

YamlLinePool ==
    { YamlLine(0, "routing", ""), YamlLine(2, "routing", ""),
      YamlLine(0, "providers", ""), YamlLine(2, "strategy", "sticky"),
      YamlLine(4, "strategy", "sticky"), YamlLine(2, "fallback", ""),
      BlankLine }

RECURSIVE TextsUpTo(_)
TextsUpTo(n) ==
    IF n = 0 THEN {<<>>}
    ELSE TextsUpTo(n - 1)
         \cup {Append(text, line) :
                  text \in {t \in TextsUpTo(n - 1) : Len(t) = n - 1},
                  line \in YamlLinePool}

\* the file is missing, or holds a text
YamlFiles ==
    {[exists |-> FALSE, text |-> <<>>]}
    \cup {[exists |-> TRUE, text |-> text] : text \in TextsUpTo(MaxYamlLines)}

Strategies == {"round-robin", "least-connections"}

\* the file is one a user or an earlier run has left
InitYaml ==
    /\ InitFiles
    /\ InitThreads
    /\ dur = NoDuration
    /\ rq = NoRetry
    /\ \E file \in YamlFiles :
         yaml = [pc |-> "idle", exists |-> file.exists, file |-> file.text,
                 before |-> file.text, strategy |-> "none"]

\* update_proxy_config_yaml_at_path, lines 89-108
UpdateProxyConfigYaml ==
    /\ yaml.pc = "idle"
    /\ \E strategy \in Strategies :
         LET existing_yaml == IF yaml.exists THEN yaml.file
                              ELSE DefaultYaml
         IN  yaml' = [pc |-> "done",
                      exists |-> TRUE,
                      file |-> SetRoutingStrategy(existing_yaml, strategy),
                      before |-> existing_yaml,
                      strategy |-> strategy]
    /\ UNCHANGED <<storeVars, logVars, lifeVars, wk, clock, emitted, cmdVars,
                   used, ghostVars, cfg, cl, dur, rq>>

\* save_config, lines 52-57: the command returns
SaveConfigReturn ==
    /\ yaml.pc = "done"
    /\ yaml' = [yaml EXCEPT !.pc = "idle"]
    /\ UNCHANGED <<storeVars, logVars, lifeVars, wk, clock, emitted, cmdVars,
                   used, ghostVars, cfg, cl, dur, rq>>

YamlNext == UpdateProxyConfigYaml \/ SaveConfigReturn

SpecYaml == InitYaml /\ [][YamlNext]_vars

\* the line that holds line i of a text as a key of its mapping: the
\* nearest line before it that is less indented; 0 at the top level
ParentOf(lines, i) ==
    LET above == {j \in 1..(i - 1) :
                     lines[j].key # "" /\ lines[j].indent < lines[i].indent}
    IN  IF above = {} THEN 0
        ELSE CHOOSE j \in above : \A x \in above : x <= j

\* line i is the strategy: key of a routing: block at the top level
IsRoutingStrategy(lines, i) ==
    /\ lines[i].key = "strategy"
    /\ ParentOf(lines, i) # 0
    /\ lines[ParentOf(lines, i)].key = "routing"
    /\ lines[ParentOf(lines, i)].indent = 0

\* the lines of a text that are neither blank nor the strategy: key of the
\* routing: block
RECURSIVE OtherLines(_, _)
OtherLines(lines, n) ==
    IF n = 0 THEN <<>>
    ELSE IF lines[n].key = "" \/ IsRoutingStrategy(lines, n)
         THEN OtherLines(lines, n - 1)
         ELSE Append(OtherLines(lines, n - 1), lines[n])

HasRoutingBlock(lines) ==
    \E i \in 1..Len(lines) : lines[i].key = "routing" /\ lines[i].indent = 0

\* C35: after the update the routing: block holds the strategy, and the
\* lines that are not its strategy: key are those of the file before, in
\* their order, with the routing: line added when there was no block
C35_OnlyRoutingStrategyChanges ==
    yaml.pc = "done" =>
        /\ \E i \in 1..Len(yaml.file) :
              /\ IsRoutingStrategy(yaml.file, i)
              /\ yaml.file[i].value = yaml.strategy
        /\ OtherLines(yaml.file, Len(yaml.file)) =
              IF HasRoutingBlock(yaml.before)
              THEN OtherLines(yaml.before, Len(yaml.before))
              ELSE Append(OtherLines(yaml.before, Len(yaml.before)),
                          YamlLine(0, "routing", ""))

(***************************************************************************)
(* The tail worker and the syncs of a proxy whose clock is ahead.          *)
(***************************************************************************)
SeriesNext ==
    \/ \E w \in Workers : WorkerReads(w) \/ WorkerStores(w)
    \/ ProxyWrites
    \/ StartProxyHalt
    \/ StartProxyResume
    \/ SyncFetchAhead
    \/ SyncLoadHistory
    \/ SyncOpenHistory
    \/ SyncWriteHistory
    \/ SyncLoadAggregate
    \/ SyncSaveOpen
    \/ SyncSaveWrite
    \/ SyncSaveRename
    \/ SyncReturn

SpecSeries == Init /\ [][SeriesNext]_vars

IsAscending(series) ==
    \A i, j \in 1..Len(series) : i < j => series[i].label < series[j].label

\* C36: the four time series of the aggregate file are in ascending order
\* of their labels whenever the file holds an aggregate
C36_SeriesAscending ==
    (aggPath # 0 /\ inodes[aggPath].st = "full") =>
        /\ IsAscending(LoadAggregate.requests_by_day)
        /\ IsAscending(LoadAggregate.tokens_by_day)
        /\ IsAscending(LoadAggregate.requests_by_hour)
        /\ IsAscending(LoadAggregate.tokens_by_hour)

(***************************************************************************)
(* add_request_to_history called with the events of the tail worker, which *)
(* has stored them in the history already, with or without token counts.   *)
(***************************************************************************)
AddNext ==
    \/ \E w \in Workers : WorkerReads(w) \/ WorkerStores(w)
    \/ ProxyWrites
    \/ StartProxyHalt
    \/ StartProxyResume
    \/ AddLoadAny
    \/ AddOpen
    \/ AddWrite

SpecAdd == Init /\ [][AddNext]_vars

\* add_request_to_history finds the id of its request in the history it
\* has loaded: it pushes nothing
AdderFindsId ==
    /\ ad.pc = "idle"
    /\ ad'.pc = "openhist"
    /\ LoadRequestHistory.requests # <<>>
    /\ ad'.hist.requests = LoadRequestHistory.requests

\* C37: when the id of the request is in the history, the history
\* add_request_to_history saves is the one it loaded: the same requests
\* and the same token and cost totals
C37_DuplicateLeavesHistory ==
    [][AdderFindsId => ad'.hist = LoadRequestHistory]_vars

(***************************************************************************)
(* fetch_with_retry (commands/quota.rs, lines 322-354).  The clients of    *)
(* its callers have a timeout of ten seconds (lines 431, 631, 956), so a   *)
(* request that is sent ends with a response or with an error.             *)
(***************************************************************************)
MaxRetries == 2

\* what one send may end with: a response with a status, or an error
SendOutcomes ==
    {[ok |-> TRUE, status |-> status, error |-> "none"] :
        status \in {200, 302, 404, 429, 500, 503}}
    \cup {[ok |-> FALSE, status |-> 0, error |-> error] :
             error \in {"timeout", "connect", "redirect", "body"}}

\* lines 341-349: the arms that continue
IsRetried(outcome) ==
    IF outcome.ok
    THEN (outcome.status >= 500 /\ outcome.status <= 599) \/ outcome.status = 429
    ELSE outcome.error \in {"timeout", "connect"}

\* a loop that makes one attempt more
HasNextAttemptOnceMore(attempt, max_retries) == attempt <= max_retries

\* line 332: attempt is not the last of 0..=max_retries
HasNextAttempt(attempt, max_retries) == attempt < max_retries

FetchWithRetryCall ==
    /\ rq.pc = "idle"
    /\ \E max_retries \in 0..MaxRetries :
         rq' = [pc |-> "send", max_retries |-> max_retries, attempt |-> 0,
                tried |-> <<>>, result |-> "none"]
    /\ UNCHANGED <<storeVars, logVars, lifeVars, wk, clock, emitted, cmdVars,
                   used, ghostVars, cfg, cl, dur, yaml>>

\* lines 333-335: the sleep before a retry is over
FetchSleep ==
    /\ rq.pc = "sleep"
    /\ rq' = [rq EXCEPT !.pc = "send"]
    /\ UNCHANGED <<storeVars, logVars, lifeVars, wk, clock, emitted, cmdVars,
                   used, ghostVars, cfg, cl, dur, yaml>>

\* lines 336-352: the request is sent and its outcome matched
FetchSend ==
    /\ rq.pc = "send"
    /\ \E outcome \in SendOutcomes :
         rq' = IF IsRetried(outcome)
               THEN IF HasNextAttempt(rq.attempt, rq.max_retries)
                    THEN [rq EXCEPT !.pc = "sleep", !.attempt = @ + 1,
                                    !.tried = Append(@, outcome)]
                    ELSE [rq EXCEPT !.pc = "done",
                                    !.tried = Append(@, outcome),
                                    !.result = "all attempts failed"]
               ELSE [rq EXCEPT !.pc = "done", !.tried = Append(@, outcome),
                               !.result = IF outcome.ok THEN "response"
                                          ELSE "error"]
    /\ UNCHANGED <<storeVars, logVars, lifeVars, wk, clock, emitted, cmdVars,
                   used, ghostVars, cfg, cl, dur, yaml>>

\* the caller has taken the result
FetchReturn ==
    /\ rq.pc = "done"
    /\ rq' = NoRetry
    /\ UNCHANGED <<storeVars, logVars, lifeVars, wk, clock, emitted, cmdVars,
                   used, ghostVars, cfg, cl, dur, yaml>>

RetryNext == FetchWithRetryCall \/ FetchSleep \/ FetchSend \/ FetchReturn

\* a sleep of tokio ends and a request sent with a timeout ends
SpecRetry ==
    /\ Init
    /\ [][RetryNext]_vars
    /\ WF_vars(FetchSleep)
    /\ WF_vars(FetchSend)

\* C38: a call sends at most max_retries + 1 requests, every one before
\* the last ended in a timeout, a connection error, a 5xx or a 429, it
\* returns the first response or error of another kind at once, returns an
\* error after max_retries + 1 failures of those kinds, and it ends
C38_RetryTerminates ==
    /\ [](rq.pc # "idle" =>
            /\ Len(rq.tried) <= rq.max_retries + 1
            /\ \A i \in 1..(Len(rq.tried) - 1) : IsRetried(rq.tried[i])
            /\ rq.pc = "done" =>
                  LET last == rq.tried[Len(rq.tried)]
                  IN  /\ rq.result = "response" <=>
                            (last.ok /\ last.status \notin {429, 500, 503})
                      /\ rq.result = "error" <=>
                            (~last.ok
                             /\ last.error \notin {"timeout", "connect"})
                      /\ rq.result = "all attempts failed" <=>
                            (/\ IsRetried(last)
                             /\ Len(rq.tried) = rq.max_retries + 1))
    /\ (rq.pc \in {"send", "sleep"}) ~> (rq.pc = "done")

\* every attempt of a call with two retries has failed with an error of
\* the kinds that are retried, the last with a 429
C38_AllAttemptsFailed ==
    /\ rq.pc = "done"
    /\ rq.max_retries = MaxRetries
    /\ Len(rq.tried) = MaxRetries + 1
    /\ rq.tried[Len(rq.tried)].status = 429
    /\ rq.result = "all attempts failed"


\* C39: every aggregate.json on disk, after any sequence of tail-driven
\* updates, the startup migration and syncs of either kind, has
\* total_success_count <= total_requests.
C39_SuccessWithinRequests ==
    (aggPath # 0 /\ inodes[aggPath].st = "full")
        => LoadAggregate.total_success_count <= LoadAggregate.total_requests

SyncedPart(agg) ==
    [requests_by_day |-> agg.requests_by_day,
     tokens_by_day |-> agg.tokens_by_day,
     requests_by_hour |-> agg.requests_by_hour,
     tokens_by_hour |-> agg.tokens_by_hour,
     model_stats |-> agg.model_stats,
     total_requests |-> agg.total_requests,
     total_success_count |-> agg.total_success_count]

\* C40: the two implementations of the sync apply the same merge.  Whenever
\* a sync of either kind merges its payload into the Aggregate it loaded,
\* the other implementation, given that Aggregate and that payload, leaves
\* the same time series, per-model stats, total requests and total
\* successes.
C40_SyncsApplySameMerge ==
    [][(sy.pc = "loadagg" /\ sy'.pc = "opentmp")
           => SyncedPart(CommandAggregate(LoadAggregate, sy.payload, sy.today))
              = SyncedPart(BlockingAggregate(LoadAggregate, sy.payload,
                                             sy.today))]_vars

====
